---------------------------- MODULE Spec2Model ----------------------------
(***************************************************************************)
(* MVKRenderPass.mm: render subpasses, render pass attachments and the     *)
(* render pass that owns them.                                             *)
(*                                                                         *)
(* uint32_t values are held as integers.  A value above 2^31-1 is held as  *)
(* its two's complement (x - 2^32), so 0xFFFFFFFF (VK_ATTACHMENT_UNUSED,   *)
(* kMVKUndefinedLargeUInt32, 0u - 1) is -1.  View masks are drawn from     *)
(* 0 .. 2^MaxViews - 1 with MaxViews well below 32, so no shift count      *)
(* reaches the width of the type.                                          *)
(***************************************************************************)
EXTENDS Integers, Sequences, FiniteSets

VARIABLES
    pc,            \* position of the MVKRenderPass constructor: "subpasses", "attachments", "done"
    device,        \* the features of the device the render pass was created on
    _subpasses,    \* MVKRenderPass::_subpasses
    _attachments,  \* MVKRenderPass::_attachments
    createInfo,    \* what the render pass is created from: the counts and the form of the structure
    _configurationResult,  \* MVKRenderPass::_configurationResult (of MVKConfigurableMixin)
    ret            \* the last call made on the constructed render pass and what it returned

vars == <<pc, device, _subpasses, _attachments, createInfo, _configurationResult, ret>>

\* Number of view bits a view mask may use.
MaxViews == 4

ViewMasks == 0 .. (2^MaxViews - 1)

VK_ATTACHMENT_UNUSED == -1

-----------------------------------------------------------------------------
(* uint32_t arithmetic *)

\* a & b
RECURSIVE BitAnd(_, _)
BitAnd(a, b) ==
    IF a = 0 \/ b = 0 THEN 0
    ELSE (a % 2) * (b % 2) + 2 * BitAnd(a \div 2, b \div 2)

\* a | b
BitOr(a, b) == a + b - BitAnd(a, b)

\* a & ~b
BitAndNot(a, b) == a - BitAnd(a, b)

\* 1 << n
Shl1(n) == 2^n

\* x-- on a uint32_t: 0 wraps to 0xFFFFFFFF, held as -1
U32Dec(x) == x - 1

\* x > 0 on a uint32_t
U32Positive(x) == x # 0

\* ffs(3): the 1-based index of the lowest set bit, 0 for 0
RECURSIVE ffs(_)
ffs(x) == IF x = 0 THEN 0 ELSE IF x % 2 = 1 THEN 1 ELSE 1 + ffs(x \div 2)

\* __builtin_popcount
RECURSIVE popcount(_)
popcount(x) == IF x = 0 THEN 0 ELSE (x % 2) + popcount(x \div 2)

-----------------------------------------------------------------------------
(* getNextViewMaskGroup *)

\* The while loop of getNextViewMaskGroup: step over the set bits from `end`,
\* clearing each from viewMask and collecting it in groupMask.
RECURSIVE ClumpLoop(_, _, _)
ClumpLoop(viewMask, end, groupMask) ==
    IF BitAnd(viewMask, Shl1(end)) # 0
    THEN ClumpLoop(BitAndNot(viewMask, Shl1(end)), end + 1,
                   BitOr(groupMask, BitAnd(viewMask, Shl1(end))))
    ELSE [viewMask |-> viewMask, end |-> end, groupMask |-> groupMask]

\* getNextViewMaskGroup with startView left 1-based, as ffs gives it; C3 does not
\* hold of it.
GetNextViewMaskGroupOneBased(viewMask) ==
    LET pos == ffs(viewMask) - 1
        r   == ClumpLoop(viewMask, pos, 0)
    IN  [viewMask  |-> r.viewMask,
         startView |-> ffs(viewMask),
         viewCount |-> r.end - pos,
         groupMask |-> r.groupMask]

\* Returns the remaining mask with the out-parameters startView, viewCount, groupMask.
\* Called with viewMask # 0 only (ffs(0) - 1 is no shift count).
GetNextViewMaskGroup(viewMask) ==
    LET pos == ffs(viewMask) - 1
        r   == ClumpLoop(viewMask, pos, 0)
    IN  [viewMask  |-> r.viewMask,
         startView |-> pos,
         viewCount |-> r.end - pos,
         groupMask |-> r.groupMask]

-----------------------------------------------------------------------------
(* MVKRenderSubpass: the view mask queries *)

CanUseInstancingForMultiview == device.canUseInstancingForMultiview

RECURSIVE CountClumps(_, _)
CountClumps(mask, count) ==
    IF mask # 0 THEN CountClumps(GetNextViewMaskGroup(mask).viewMask, count + 1)
    ELSE count

GetMultiviewMetalPassCount(sp) ==
    IF sp.viewMask = 0 THEN 0
    ELSE IF ~CanUseInstancingForMultiview THEN popcount(sp.viewMask)
    ELSE CountClumps(sp.viewMask, 0)

\* while (passIdx-- > 0 && viewCount-- > 0) { startView++; }
\* Both decrements happen when their test is evaluated, also when it fails.
RECURSIVE UnrollWhile(_, _, _)
UnrollWhile(passIdx, viewCount, startView) ==
    IF U32Positive(passIdx)
    THEN IF U32Positive(viewCount)
         THEN UnrollWhile(U32Dec(passIdx), U32Dec(viewCount), startView + 1)
         ELSE [passIdx |-> U32Dec(passIdx), viewCount |-> U32Dec(viewCount),
               startView |-> startView]
    ELSE [passIdx |-> U32Dec(passIdx), viewCount |-> viewCount, startView |-> startView]

\* for (uint32_t i = 0; mask != 0; ++i) { mask = getNextViewMaskGroup(...); while ... }
RECURSIVE UnrollFor(_, _, _)
UnrollFor(mask, passIdx, startView) ==
    IF mask # 0
    THEN LET g == GetNextViewMaskGroup(mask)
             w == UnrollWhile(passIdx, g.viewCount, g.startView)
         IN  UnrollFor(g.viewMask, w.passIdx, w.startView)
    ELSE startView

\* for (uint32_t i = 0; i <= passIdx; ++i) { mask = getNextViewMaskGroup(mask, ...); }
\* The out-parameters of the last call, with the views counted over all calls.
RECURSIVE GroupLoop(_, _, _, _)
GroupLoop(mask, i, passIdx, totalViewCount) ==
    LET g == GetNextViewMaskGroup(mask)
    IN  IF i < passIdx
        THEN GroupLoop(g.viewMask, i + 1, passIdx, totalViewCount + g.viewCount)
        ELSE [startView |-> g.startView, viewCount |-> g.viewCount,
              groupMask |-> g.groupMask,
              totalViewCount |-> totalViewCount + g.viewCount]

GetFirstViewIndexInMetalPass(sp, passIdx) ==
    IF sp.viewMask = 0 THEN 0
    ELSE IF ~CanUseInstancingForMultiview THEN UnrollFor(sp.viewMask, passIdx, 0)
    ELSE GroupLoop(sp.viewMask, 0, passIdx, 0).startView

GetViewMaskGroupForMetalPass(sp, passIdx) ==
    IF sp.viewMask = 0 THEN 0
    ELSE IF ~CanUseInstancingForMultiview
         THEN Shl1(GetFirstViewIndexInMetalPass(sp, passIdx))
    ELSE GroupLoop(sp.viewMask, 0, passIdx, 0).groupMask

GetViewCountInMetalPass(sp, passIdx) ==
    IF sp.viewMask = 0 THEN 0
    ELSE IF ~CanUseInstancingForMultiview THEN 1
    ELSE GroupLoop(sp.viewMask, 0, passIdx, 0).viewCount

\* getViewCountUpToMetalPass counting the passes before passIdx only; C4 does not
\* hold of it.
GetViewCountUpToMetalPassBefore(sp, passIdx) ==
    IF sp.viewMask = 0 THEN 0
    ELSE IF ~CanUseInstancingForMultiview THEN passIdx
    ELSE LET g == GroupLoop(sp.viewMask, 0, passIdx, 0)
         IN  g.totalViewCount - g.viewCount

GetViewCountUpToMetalPass(sp, passIdx) ==
    IF sp.viewMask = 0 THEN 0
    ELSE IF ~CanUseInstancingForMultiview THEN passIdx + 1
    ELSE GroupLoop(sp.viewMask, 0, passIdx, 0).totalViewCount

-----------------------------------------------------------------------------
(* MVKRenderSubpass: construction and attachment use *)

\* An attachment reference is held as its attachment index (the layout and the
\* aspect mask of a reference are passed through and never read here).

\* Number of subpasses a render pass is created with, at most.
MaxSubpasses == 3

\* Number of view bits used by the view masks of a render pass under construction.
PassViews == 2

PassMasks == 1 .. (2^PassViews - 1)

\* MVKRenderSubpass(renderPass, VkSubpassDescription*, pInputAspects, viewMask):
\* a null pResolveAttachments is the empty list, a null pDepthStencilAttachment
\* is VK_ATTACHMENT_UNUSED; this form has no depth/stencil resolve attachment.
NewSubpass(desc, viewMask) ==
    [subpassIndex                 |-> Len(_subpasses),
     viewMask                     |-> viewMask,
     inputAttachments             |-> desc.inputAttachments,
     colorAttachments             |-> desc.colorAttachments,
     resolveAttachments           |-> desc.resolveAttachments,
     depthStencilAttachment       |-> desc.depthStencilAttachment,
     depthStencilResolveAttachment |-> VK_ATTACHMENT_UNUSED,
     depthResolveMode             |-> "VK_RESOLVE_MODE_NONE",
     stencilResolveMode           |-> "VK_RESOLVE_MODE_NONE"]

\* MVKRenderSubpass(renderPass, VkSubpassDescription2*).  The resolve modes are
\* taken from the chained VkSubpassDescriptionDepthStencilResolve together with its
\* attachment; without one they stay as declared and are never read.
NewSubpass2(desc) ==
    [subpassIndex                 |-> Len(_subpasses),
     viewMask                     |-> desc.viewMask,
     inputAttachments             |-> desc.inputAttachments,
     colorAttachments             |-> desc.colorAttachments,
     resolveAttachments           |-> desc.resolveAttachments,
     depthStencilAttachment       |-> desc.depthStencilAttachment,
     depthStencilResolveAttachment |-> desc.depthStencilResolveAttachment,
     depthResolveMode             |-> IF desc.depthStencilResolveAttachment = VK_ATTACHMENT_UNUSED
                                      THEN "VK_RESOLVE_MODE_NONE" ELSE desc.depthResolveMode,
     stencilResolveMode           |-> IF desc.depthStencilResolveAttachment = VK_ATTACHMENT_UNUSED
                                      THEN "VK_RESOLVE_MODE_NONE" ELSE desc.stencilResolveMode]

\* MVKRenderSubpass::isMultiview (declared with the class): _viewMask != 0
SubpassIsMultiview(sp) == sp.viewMask # 0

\* for (auto& att : list) { if (att.attachment == rpAttIdx) { ...; break; } }
InList(list, rpAttIdx) == \E i \in 1 .. Len(list) : list[i] = rpAttIdx

\* getRequiredFormatCapabilitiesForAttachmentAt stopping at the first role the
\* attachment is found in; C15 does not hold of it.
GetRequiredFormatCapabilitiesForAttachmentAtFirstRole(sp, rpAttIdx) ==
    IF InList(sp.inputAttachments, rpAttIdx) THEN {"Read"}
    ELSE IF InList(sp.colorAttachments, rpAttIdx) THEN {"ColorAtt"}
    ELSE IF InList(sp.resolveAttachments, rpAttIdx) THEN {"Resolve"}
    ELSE IF sp.depthStencilAttachment = rpAttIdx THEN {"DSAtt"}
    ELSE IF sp.depthStencilResolveAttachment = rpAttIdx THEN {"Resolve"}
    ELSE {}

\* MVKMTLFmtCaps is held as the set of its enabled flags.
GetRequiredFormatCapabilitiesForAttachmentAt(sp, rpAttIdx) ==
    (IF InList(sp.inputAttachments, rpAttIdx) THEN {"Read"} ELSE {})
    \cup (IF InList(sp.colorAttachments, rpAttIdx) THEN {"ColorAtt"} ELSE {})
    \cup (IF InList(sp.resolveAttachments, rpAttIdx) THEN {"Resolve"} ELSE {})
    \cup (IF sp.depthStencilAttachment = rpAttIdx THEN {"DSAtt"} ELSE {})
    \cup (IF sp.depthStencilResolveAttachment = rpAttIdx THEN {"Resolve"} ELSE {})

-----------------------------------------------------------------------------
(* MVKRenderPassAttachment: construction and validateFormat *)

kMVKUndefinedLargeUInt32 == -1

\* a < b on uint32_t values
U32Less(a, b) == IF a < 0 THEN b < 0 /\ a < b ELSE b < 0 \/ a < b

U32Min(a, b) == IF U32Less(b, a) THEN b ELSE a

U32Max(a, b) == IF U32Less(a, b) THEN b ELSE a

\* MVKRenderPass::isMultiview: _subpasses[0].isMultiview()
RenderPassIsMultiview == SubpassIsMultiview(_subpasses[1])

\* The for_each over _lastUseViewMasks leaving the masks as they are; C21 does not
\* hold of it.
ClearViewsNone(masks, viewMask) == masks

\* std::for_each(masks, [viewMask](uint32_t& mask) { mask &= ~viewMask; })
ClearViews(masks, viewMask) ==
    [i \in 1 .. Len(masks) |-> BitAndNot(masks[i], viewMask)]

\* std::for_each(masks, [&viewMask](uint32_t mask) { viewMask &= ~mask; })
RECURSIVE RemoveViews(_, _, _)
RemoveViews(masks, i, viewMask) ==
    IF i > Len(masks) THEN viewMask
    ELSE RemoveViews(masks, i + 1, BitAndNot(viewMask, masks[i]))

\* The loop body of validateFormat taking each subpass that uses the attachment as
\* its first use, without the min; C5 does not hold of it.
ValidateSubpassNoMin(att, subPass) ==
    LET reqCaps == GetRequiredFormatCapabilitiesForAttachmentAt(subPass, att.attachmentIndex)
        spIdx   == subPass.subpassIndex
    IN  IF reqCaps = {} THEN att
        ELSE [att EXCEPT
                !.firstUseSubpassIdx = spIdx,
                !.lastUseSubpassIdx  = U32Max(spIdx, att.lastUseSubpassIdx),
                !.lastUseViewMasks  =
                    IF SubpassIsMultiview(subPass)
                    THEN Append(ClearViews(att.lastUseViewMasks, subPass.viewMask),
                                subPass.viewMask)
                    ELSE att.lastUseViewMasks,
                !.firstUseViewMasks =
                    IF SubpassIsMultiview(subPass)
                    THEN Append(att.firstUseViewMasks,
                                RemoveViews(att.firstUseViewMasks, 1, subPass.viewMask))
                    ELSE att.firstUseViewMasks]

\* The body of the loop of validateFormat for one subpass.
ValidateSubpass(att, subPass) ==
    LET reqCaps == GetRequiredFormatCapabilitiesForAttachmentAt(subPass, att.attachmentIndex)
        spIdx   == subPass.subpassIndex
    IN  IF reqCaps = {} THEN att
        ELSE LET used == [att EXCEPT
                            !.firstUseSubpassIdx = U32Min(spIdx, att.firstUseSubpassIdx),
                            !.lastUseSubpassIdx  = U32Max(spIdx, att.lastUseSubpassIdx)]
             IN  IF SubpassIsMultiview(subPass)
                 THEN [used EXCEPT
                         !.lastUseViewMasks  =
                             Append(ClearViews(att.lastUseViewMasks, subPass.viewMask),
                                    subPass.viewMask),
                         !.firstUseViewMasks =
                             Append(att.firstUseViewMasks,
                                    RemoveViews(att.firstUseViewMasks, 1, subPass.viewMask))]
                 ELSE used

\* for (auto& subPass : _renderPass->_subpasses) { ... }
RECURSIVE ValidateLoop(_, _)
ValidateLoop(att, i) ==
    IF i > Len(_subpasses) THEN att
    ELSE ValidateLoop(ValidateSubpass(att, _subpasses[i]), i + 1)

\* validateFormat starting the search for the first use at 0 instead of at the
\* undefined value; C20 does not hold of it.
ValidateFormatFromZero(att) ==
    ValidateLoop([att EXCEPT !.firstUseSubpassIdx = 0, !.lastUseSubpassIdx = 0], 1)

ValidateFormat(att) ==
    ValidateLoop([att EXCEPT !.firstUseSubpassIdx = kMVKUndefinedLargeUInt32,
                             !.lastUseSubpassIdx  = 0], 1)

\* The flags of MVKMTLFmtCaps that a subpass may require of an attachment.
FmtCaps == {"Read", "ColorAtt", "DSAtt", "Resolve"}

\* A VkFormat is held as what MVKPixelFormats answers about it: whether it is
\* supported or substitutable, and the capabilities of its MTLPixelFormat.
Formats == [supported : BOOLEAN, caps : SUBSET FmtCaps]

\* MVKConfigurableMixin::setConfigurationResult: the first result that is not
\* VK_SUCCESS stays.
SetConfigurationResult(result, vkResult) ==
    IF result = "VK_SUCCESS" THEN vkResult ELSE result

\* mvkAreAllFlagsEnabled(availCaps, reqCaps) after mvkEnableFlags(availCaps, Resolve)
CapabilitiesSuffice(format, reqCaps) == reqCaps \subseteq (format.caps \cup {"Resolve"})

\* validateFormat checking the required capabilities against those of the format
\* without enabling the resolve capability first; C16 does not hold of it.
ValidateLoopResultStrict(att, i, result) ==
    IF \E s \in i .. Len(_subpasses) :
          LET reqCaps == GetRequiredFormatCapabilitiesForAttachmentAt(_subpasses[s],
                                                                     att.attachmentIndex)
          IN  reqCaps # {} /\ ~(reqCaps \subseteq att.info.format.caps)
    THEN SetConfigurationResult(result, "VK_ERROR_FORMAT_NOT_SUPPORTED")
    ELSE result

\* The configuration result after the loop of validateFormat from subpass i on.
RECURSIVE ValidateLoopResult(_, _, _)
ValidateLoopResult(att, i, result) ==
    IF i > Len(_subpasses) THEN result
    ELSE LET reqCaps == GetRequiredFormatCapabilitiesForAttachmentAt(_subpasses[i],
                                                                    att.attachmentIndex)
         IN  ValidateLoopResult(att, i + 1,
                 IF reqCaps # {} /\ ~CapabilitiesSuffice(att.info.format, reqCaps)
                 THEN SetConfigurationResult(result, "VK_ERROR_FORMAT_NOT_SUPPORTED")
                 ELSE result)

\* validateFormat leaving on the render pass the outcome of this attachment alone,
\* so that an attachment that passes clears an earlier error; C17 does not hold of it.
ValidateFormatResultOfLast(att, result) ==
    ValidateLoopResult(att, 1,
        IF ~att.info.format.supported THEN "VK_ERROR_FORMAT_NOT_SUPPORTED" ELSE "VK_SUCCESS")

\* The configuration result of the render pass after validateFormat of att.
ValidateFormatResult(att, result) ==
    ValidateLoopResult(att, 1,
        IF ~att.info.format.supported
        THEN SetConfigurationResult(result, "VK_ERROR_FORMAT_NOT_SUPPORTED")
        ELSE result)

\* MVKRenderPassAttachment(renderPass, pCreateInfo): copies the description,
\* takes the next attachment index and validates.
NewAttachment(info) ==
    ValidateFormat([attachmentIndex    |-> Len(_attachments),
                    info               |-> info,
                    firstUseSubpassIdx |-> 0,
                    lastUseSubpassIdx  |-> 0,
                    firstUseViewMasks  |-> <<>>,
                    lastUseViewMasks   |-> <<>>])

-----------------------------------------------------------------------------
(* MVKRenderPassAttachment: first use, last use, clearing, store action *)

\* masks[idx] on the vector of first- or last-use view masks.  The vector holds one
\* entry per subpass that uses the attachment; an index at or past its size reads
\* storage that was reserved and never written, which yields `junk`.
ViewMaskEntry(masks, idx, junk) ==
    IF idx < Len(masks) THEN masks[idx + 1] ELSE junk

IsFirstUseOfAttachment(att, subpass, junk) ==
    IF SubpassIsMultiview(subpass)
    THEN ViewMaskEntry(att.firstUseViewMasks, subpass.subpassIndex, junk) = subpass.viewMask
    ELSE att.firstUseSubpassIdx = subpass.subpassIndex

IsLastUseOfAttachment(att, subpass, junk) ==
    IF SubpassIsMultiview(subpass)
    THEN ViewMaskEntry(att.lastUseViewMasks, subpass.subpassIndex, junk) = subpass.viewMask
    ELSE att.lastUseSubpassIdx = subpass.subpassIndex

\* shouldClearAttachment without the test of first use; C6 does not hold of it.
ShouldClearAttachmentAnywhere(att, subpass, isStencil, junk) ==
    (IF isStencil THEN att.info.stencilLoadOp ELSE att.info.loadOp)
        = "VK_ATTACHMENT_LOAD_OP_CLEAR"

\* shouldClearAttachment asking, with multiview, for the first-use mask to be the
\* whole view mask of the subpass; C10 does not hold of it.
ShouldClearAttachmentWholeMask(att, subpass, isStencil, junk) ==
    /\ IsFirstUseOfAttachment(att, subpass, junk)
    /\ (IF isStencil THEN att.info.stencilLoadOp ELSE att.info.loadOp)
          = "VK_ATTACHMENT_LOAD_OP_CLEAR"

ShouldClearAttachment(att, subpass, isStencil, junk) ==
    IF SubpassIsMultiview(subpass)
          /\ ViewMaskEntry(att.firstUseViewMasks, subpass.subpassIndex, junk) = 0
    THEN FALSE
    ELSE IF ~SubpassIsMultiview(subpass) /\ subpass.subpassIndex # att.firstUseSubpassIdx
    THEN FALSE
    ELSE LET loadOp == IF isStencil THEN att.info.stencilLoadOp ELSE att.info.loadOp
         IN  loadOp = "VK_ATTACHMENT_LOAD_OP_CLEAR"

\* mvkMTLStoreActionFromVkAttachmentStoreOp: the declared store-op, composed with
\* the resolve when a resolve attachment is present and its format can resolve.
MTLStoreActionFromVkAttachmentStoreOp(storeOp, hasResolveAttachment, canResolveFormat) ==
    IF storeOp = "VK_ATTACHMENT_STORE_OP_STORE"
    THEN IF hasResolveAttachment /\ canResolveFormat
         THEN "MTLStoreActionStoreAndMultisampleResolve" ELSE "MTLStoreActionStore"
    ELSE IF hasResolveAttachment /\ canResolveFormat
         THEN "MTLStoreActionMultisampleResolve" ELSE "MTLStoreActionDontCare"

\* getMTLStoreAction without the test of last use; C7 does not hold of it.
GetMTLStoreActionAnyUse(att, subpass, isRenderingEntireAttachment, isMemorylessAttachment, hasResolveAttachment, canResolveFormat, isStencil, storeOverride, junk) ==
    IF hasResolveAttachment /\ canResolveFormat /\ ~device.combinedStoreResolveAction
    THEN "MTLStoreActionMultisampleResolve"
    ELSE IF isMemorylessAttachment
    THEN IF hasResolveAttachment THEN "MTLStoreActionMultisampleResolve"
         ELSE "MTLStoreActionDontCare"
    ELSE IF storeOverride \/ ~isRenderingEntireAttachment
    THEN IF hasResolveAttachment /\ canResolveFormat
         THEN "MTLStoreActionStoreAndMultisampleResolve" ELSE "MTLStoreActionStore"
    ELSE MTLStoreActionFromVkAttachmentStoreOp(
             IF isStencil THEN att.info.stencilStoreOp ELSE att.info.storeOp,
             hasResolveAttachment, canResolveFormat)

\* getMTLStoreAction with the memoryless test after the test that forces a store;
\* C8 does not hold of it.
GetMTLStoreActionStoreFirst(att, subpass, isRenderingEntireAttachment, isMemorylessAttachment, hasResolveAttachment, canResolveFormat, isStencil, storeOverride, junk) ==
    IF hasResolveAttachment /\ canResolveFormat /\ ~device.combinedStoreResolveAction
    THEN "MTLStoreActionMultisampleResolve"
    ELSE IF storeOverride \/ ~isRenderingEntireAttachment
               \/ ~IsLastUseOfAttachment(att, subpass, junk)
    THEN IF hasResolveAttachment /\ canResolveFormat
         THEN "MTLStoreActionStoreAndMultisampleResolve" ELSE "MTLStoreActionStore"
    ELSE IF isMemorylessAttachment
    THEN IF hasResolveAttachment THEN "MTLStoreActionMultisampleResolve"
         ELSE "MTLStoreActionDontCare"
    ELSE MTLStoreActionFromVkAttachmentStoreOp(
             IF isStencil THEN att.info.stencilStoreOp ELSE att.info.storeOp,
             hasResolveAttachment, canResolveFormat)

\* getMTLStoreAction without the resolve rule, as on a device that always has the
\* combined store-and-resolve action; C13 does not hold of it.
GetMTLStoreActionNoResolveRule(att, subpass, isRenderingEntireAttachment, isMemorylessAttachment, hasResolveAttachment, canResolveFormat, isStencil, storeOverride, junk) ==
    IF isMemorylessAttachment
    THEN IF hasResolveAttachment THEN "MTLStoreActionMultisampleResolve"
         ELSE "MTLStoreActionDontCare"
    ELSE IF storeOverride \/ ~isRenderingEntireAttachment
               \/ ~IsLastUseOfAttachment(att, subpass, junk)
    THEN IF hasResolveAttachment /\ canResolveFormat
         THEN "MTLStoreActionStoreAndMultisampleResolve" ELSE "MTLStoreActionStore"
    ELSE MTLStoreActionFromVkAttachmentStoreOp(
             IF isStencil THEN att.info.stencilStoreOp ELSE att.info.storeOp,
             hasResolveAttachment, canResolveFormat)

\* getMTLStoreAction without the test of the store override; C14 does not hold of it.
GetMTLStoreActionNoOverride(att, subpass, isRenderingEntireAttachment, isMemorylessAttachment, hasResolveAttachment, canResolveFormat, isStencil, storeOverride, junk) ==
    IF hasResolveAttachment /\ canResolveFormat /\ ~device.combinedStoreResolveAction
    THEN "MTLStoreActionMultisampleResolve"
    ELSE IF isMemorylessAttachment
    THEN IF hasResolveAttachment THEN "MTLStoreActionMultisampleResolve"
         ELSE "MTLStoreActionDontCare"
    ELSE IF ~isRenderingEntireAttachment \/ ~IsLastUseOfAttachment(att, subpass, junk)
    THEN IF hasResolveAttachment /\ canResolveFormat
         THEN "MTLStoreActionStoreAndMultisampleResolve" ELSE "MTLStoreActionStore"
    ELSE MTLStoreActionFromVkAttachmentStoreOp(
             IF isStencil THEN att.info.stencilStoreOp ELSE att.info.storeOp,
             hasResolveAttachment, canResolveFormat)

GetMTLStoreAction(att, subpass, isRenderingEntireAttachment, isMemorylessAttachment, hasResolveAttachment, canResolveFormat, isStencil, storeOverride, junk) ==
    IF hasResolveAttachment /\ canResolveFormat /\ ~device.combinedStoreResolveAction
    THEN "MTLStoreActionMultisampleResolve"
    ELSE IF isMemorylessAttachment
    THEN IF hasResolveAttachment THEN "MTLStoreActionMultisampleResolve"
         ELSE "MTLStoreActionDontCare"
    ELSE IF storeOverride \/ ~isRenderingEntireAttachment
               \/ ~IsLastUseOfAttachment(att, subpass, junk)
    THEN IF hasResolveAttachment /\ canResolveFormat
         THEN "MTLStoreActionStoreAndMultisampleResolve" ELSE "MTLStoreActionStore"
    ELSE MTLStoreActionFromVkAttachmentStoreOp(
             IF isStencil THEN att.info.stencilStoreOp ELSE att.info.storeOp,
             hasResolveAttachment, canResolveFormat)

\* mvkMTLLoadActionFromVkAttachmentLoadOp: the load action of the declared load-op.
MTLLoadActionFromVkAttachmentLoadOp(loadOp) ==
    IF loadOp = "VK_ATTACHMENT_LOAD_OP_LOAD" THEN "MTLLoadActionLoad"
    ELSE IF loadOp = "VK_ATTACHMENT_LOAD_OP_CLEAR" THEN "MTLLoadActionClear"
    ELSE "MTLLoadActionDontCare"

\* populateMTLRenderPassAttachmentDescriptor taking the declared load-op at the
\* first use whatever part of the attachment is rendered; C11 does not hold of it.
PopulateMTLRenderPassAttachmentDescriptorAnyArea(att, subpass, attachment, isRenderingEntireAttachment, hasResolveAttachment, canResolveFormat, isStencil, loadOverride, junk) ==
    LET mtlLA == IF loadOverride \/ ~IsFirstUseOfAttachment(att, subpass, junk)
                 THEN "MTLLoadActionLoad"
                 ELSE MTLLoadActionFromVkAttachmentLoadOp(
                          IF isStencil THEN att.info.stencilLoadOp ELSE att.info.loadOp)
        written == IF attachment.isMemoryless /\ mtlLA = "MTLLoadActionLoad"
                   THEN "MTLLoadActionDontCare" ELSE mtlLA
    IN  [loadAction  |-> written,
         storeAction |-> "MTLStoreActionUnknown",
         value       |-> (written = "MTLLoadActionClear")]

\* populateMTLRenderPassAttachmentDescriptor without the step that keeps a
\* memoryless attachment from being loaded; C12 does not hold of it.
PopulateMTLRenderPassAttachmentDescriptorLoads(att, subpass, attachment, isRenderingEntireAttachment, hasResolveAttachment, canResolveFormat, isStencil, loadOverride, junk) ==
    LET mtlLA == IF loadOverride \/ ~isRenderingEntireAttachment
                       \/ ~IsFirstUseOfAttachment(att, subpass, junk)
                 THEN "MTLLoadActionLoad"
                 ELSE MTLLoadActionFromVkAttachmentLoadOp(
                          IF isStencil THEN att.info.stencilLoadOp ELSE att.info.loadOp)
    IN  [loadAction  |-> mtlLA,
         storeAction |-> "MTLStoreActionUnknown",
         value       |-> (mtlLA = "MTLLoadActionClear")]

\* populateMTLRenderPassAttachmentDescriptor.  `attachment` is the image view: whether
\* its texture is memoryless and whether its pixel format is a depth and a stencil
\* format.  The result is the load and the store action written to the descriptor
\* (the fields the image view itself populates are not read here) and the value
\* returned.
PopulateMTLRenderPassAttachmentDescriptor(att, subpass, attachment, isRenderingEntireAttachment, hasResolveAttachment, canResolveFormat, isStencil, loadOverride, junk) ==
    LET isMemorylessAttachment == attachment.isMemoryless
        chosen == IF loadOverride \/ ~isRenderingEntireAttachment
                        \/ ~IsFirstUseOfAttachment(att, subpass, junk)
                  THEN "MTLLoadActionLoad"
                  ELSE MTLLoadActionFromVkAttachmentLoadOp(
                           IF isStencil THEN att.info.stencilLoadOp ELSE att.info.loadOp)
        mtlLA == IF isMemorylessAttachment /\ chosen = "MTLLoadActionLoad"
                 THEN "MTLLoadActionDontCare" ELSE chosen
    IN  [loadAction  |-> mtlLA,
         storeAction |->
             IF device.deferredStoreActions THEN "MTLStoreActionUnknown"
             ELSE IF attachment.isStencilFormat /\ ~isStencil /\ ~attachment.isDepthFormat
             THEN "MTLStoreActionDontCare"
             ELSE GetMTLStoreAction(att, subpass, isRenderingEntireAttachment,
                                    isMemorylessAttachment, hasResolveAttachment,
                                    canResolveFormat, isStencil, FALSE, junk),
         value       |-> (mtlLA = "MTLLoadActionClear")]

-----------------------------------------------------------------------------
(* MVKRenderSubpass: sample count, descriptor, clear attachments, clear rects *)

\* _renderPass->_attachments[rpAttIdx]
RPAttachment(rpAttIdx) == _attachments[rpAttIdx + 1]

\* The positions of the color attachments in use, counted from 0.
UsedColorAttachments(sp) ==
    {caIdx \in 0 .. Len(sp.colorAttachments) - 1 :
        sp.colorAttachments[caIdx + 1] # VK_ATTACHMENT_UNUSED}

\* MVKRenderSubpass::getSampleCount: the sample count of the first color attachment
\* in use, or else of the depth/stencil attachment, or else of one sample.
GetSampleCount(sp) ==
    LET used == UsedColorAttachments(sp)
    IN  IF used # {}
        THEN LET caIdx == CHOOSE i \in used : \A j \in used : i <= j
             IN  RPAttachment(sp.colorAttachments[caIdx + 1]).info.samples
        ELSE IF sp.depthStencilAttachment # VK_ATTACHMENT_UNUSED
        THEN RPAttachment(sp.depthStencilAttachment).info.samples
        ELSE "VK_SAMPLE_COUNT_1_BIT"

\* The color loop of populateClearAttachments not asking the attachment whether it
\* is to be cleared; C23 does not hold of it.
RECURSIVE ClearColorAttachmentsInUse(_, _, _, _)
ClearColorAttachmentsInUse(sp, caIdx, clearAtts, junk) ==
    IF caIdx >= Len(sp.colorAttachments) THEN clearAtts
    ELSE LET attIdx == sp.colorAttachments[caIdx + 1]
         IN  ClearColorAttachmentsInUse(sp, caIdx + 1,
                 IF attIdx # VK_ATTACHMENT_UNUSED
                 THEN Append(clearAtts, [aspectMask |-> {"VK_IMAGE_ASPECT_COLOR_BIT"},
                                         colorAttachment |-> caIdx,
                                         clearValue |-> attIdx])
                 ELSE clearAtts,
                 junk)

\* The loop of populateClearAttachments over the color attachments from caIdx on.
\* clearValues[attIdx] is held as attIdx; junk gives, for each attachment, what a
\* read past the end of its view masks yields.
RECURSIVE ClearColorAttachments(_, _, _, _)
ClearColorAttachments(sp, caIdx, clearAtts, junk) ==
    IF caIdx >= Len(sp.colorAttachments) THEN clearAtts
    ELSE LET attIdx == sp.colorAttachments[caIdx + 1]
         IN  ClearColorAttachments(sp, caIdx + 1,
                 IF attIdx # VK_ATTACHMENT_UNUSED
                       /\ ShouldClearAttachment(RPAttachment(attIdx), sp, FALSE, junk[attIdx])
                 THEN Append(clearAtts, [aspectMask |-> {"VK_IMAGE_ASPECT_COLOR_BIT"},
                                         colorAttachment |-> caIdx,
                                         clearValue |-> attIdx])
                 ELSE clearAtts,
                 junk)

\* MVKRenderSubpass::populateClearAttachments.  isDepthFormat and isStencilFormat are
\* what MVKPixelFormats answers about the format of the depth/stencil attachment.
PopulateClearAttachments(sp, clearAtts, isDepthFormat, isStencilFormat, junk) ==
    LET colors == ClearColorAttachments(sp, 0, clearAtts, junk)
        attIdx == sp.depthStencilAttachment
    IN  IF attIdx = VK_ATTACHMENT_UNUSED THEN colors
        ELSE LET rpAtt == RPAttachment(attIdx)
                 aspectMask ==
                     (IF ShouldClearAttachment(rpAtt, sp, FALSE, junk[attIdx]) /\ isDepthFormat
                      THEN {"VK_IMAGE_ASPECT_DEPTH_BIT"} ELSE {})
                     \cup (IF ShouldClearAttachment(rpAtt, sp, TRUE, junk[attIdx])
                                /\ isStencilFormat
                           THEN {"VK_IMAGE_ASPECT_STENCIL_BIT"} ELSE {})
             IN  IF aspectMask # {}
                 THEN Append(colors, [aspectMask |-> aspectMask, colorAttachment |-> 0,
                                      clearValue |-> attIdx])
                 ELSE colors

\* do { clearMask = getNextViewMaskGroup(clearMask, &startView, &viewCount);
\*      clearRects.push_back({renderArea, startView, viewCount}); } while (clearMask);
RECURSIVE ClearRectsLoop(_, _)
ClearRectsLoop(clearMask, clearRects) ==
    LET g     == GetNextViewMaskGroup(clearMask)
        rects == Append(clearRects, [rect |-> "renderArea",
                                     baseArrayLayer |-> g.startView,
                                     layerCount |-> g.viewCount])
    IN  IF g.viewMask # 0 THEN ClearRectsLoop(g.viewMask, rects) ELSE rects

\* MVKRenderPassAttachment::populateMultiviewClearRects, for the subpass and the
\* multiview pass index of the command encoder.
AttachmentPopulateMultiviewClearRects(att, subpass, passIdx, clearRects, junk) ==
    LET clearMask == BitAnd(GetViewMaskGroupForMetalPass(subpass, passIdx),
                            ViewMaskEntry(att.firstUseViewMasks, subpass.subpassIndex, junk))
    IN  IF clearMask = 0 THEN clearRects ELSE ClearRectsLoop(clearMask, clearRects)

\* MVKRenderSubpass::populateMultiviewClearRects
PopulateMultiviewClearRects(sp, passIdx, clearRects, caIdx, aspectMask, junk) ==
    IF aspectMask \cap {"VK_IMAGE_ASPECT_DEPTH_BIT", "VK_IMAGE_ASPECT_STENCIL_BIT"} # {}
    THEN LET attIdx == sp.depthStencilAttachment
         IN  IF attIdx # VK_ATTACHMENT_UNUSED
             THEN AttachmentPopulateMultiviewClearRects(RPAttachment(attIdx), sp, passIdx,
                                                        clearRects, junk[attIdx])
             ELSE clearRects
    ELSE LET attIdx == sp.colorAttachments[caIdx + 1]
         IN  IF attIdx # VK_ATTACHMENT_UNUSED
             THEN AttachmentPopulateMultiviewClearRects(RPAttachment(attIdx), sp, passIdx,
                                                        clearRects, junk[attIdx])
             ELSE clearRects

\* An attachment descriptor of the MTLRenderPassDescriptor that nothing was written
\* to.
UnsetAttachmentDescriptor ==
    [texture |-> "none", loadAction |-> "unset", storeAction |-> "unset",
     clearValue |-> VK_ATTACHMENT_UNUSED, resolveTexture |-> VK_ATTACHMENT_UNUSED,
     level |-> 0, slice |-> 0, depthPlane |-> 0, resolveSlice |-> 0]

\* In a multiview render pass the starting layer is moved to the first view of the
\* Metal pass.
StartViewOffset(sp, passIdx) ==
    IF SubpassIsMultiview(sp) THEN GetFirstViewIndexInMetalPass(sp, passIdx) ELSE 0

\* What populateMTLRenderPassDescriptor writes to the descriptor of attachment
\* rpAttIdx: the texture is held as "attachment", the clear value clearValues[i] and
\* the resolve texture of attachments[i] as i, level, slices and depth plane as their
\* offset from what the image view populated (the textures are not 3D).
FilledAttachmentDescriptor(sp, passIdx, rpAttIdx, rslvRPAttIdx, attachments, isRenderingEntireAttachment, hasResolveAttachment, canResolveFormat, isStencil, loadOverride, junk) ==
    LET d == PopulateMTLRenderPassAttachmentDescriptor(
                 RPAttachment(rpAttIdx), sp, attachments[rpAttIdx + 1],
                 isRenderingEntireAttachment, hasResolveAttachment, canResolveFormat,
                 isStencil, loadOverride, junk[rpAttIdx])
        resolved == hasResolveAttachment /\ canResolveFormat
    IN  [texture        |-> "attachment",
         loadAction     |-> d.loadAction,
         storeAction    |-> d.storeAction,
         clearValue     |-> IF d.value THEN rpAttIdx ELSE VK_ATTACHMENT_UNUSED,
         resolveTexture |-> IF resolved THEN rslvRPAttIdx ELSE VK_ATTACHMENT_UNUSED,
         level          |-> 0,
         slice          |-> StartViewOffset(sp, passIdx),
         depthPlane     |-> 0,
         resolveSlice   |-> IF resolved THEN StartViewOffset(sp, passIdx) ELSE 0]

\* The descriptor of color attachment caIdx after the color loop.
ColorAttachmentDescriptor(sp, passIdx, caIdx, attachments, isRenderingEntireAttachment, loadOverride, junk) ==
    LET clrRPAttIdx  == sp.colorAttachments[caIdx + 1]
        rslvRPAttIdx == IF sp.resolveAttachments = <<>> THEN VK_ATTACHMENT_UNUSED
                        ELSE sp.resolveAttachments[caIdx + 1]
        hasResolveAttachment == rslvRPAttIdx # VK_ATTACHMENT_UNUSED
        canResolveFormat == IF hasResolveAttachment
                            THEN attachments[rslvRPAttIdx + 1].canResolve ELSE TRUE
    IN  IF clrRPAttIdx = VK_ATTACHMENT_UNUSED THEN UnsetAttachmentDescriptor
        ELSE FilledAttachmentDescriptor(sp, passIdx, clrRPAttIdx, rslvRPAttIdx, attachments,
                                        isRenderingEntireAttachment, hasResolveAttachment,
                                        canResolveFormat, FALSE, loadOverride, junk)

\* The dummy attachment with the store action Store; C25 does not hold of it.
DummyAttachmentStored ==
    [UnsetAttachmentDescriptor EXCEPT !.texture = "dummy",
                                      !.loadAction = "MTLLoadActionDontCare",
                                      !.storeAction = "MTLStoreActionStore"]

\* The dummy attachment put in color slot 0 when nothing is rendered to and Metal
\* cannot render without attachments.
DummyAttachmentDescriptor ==
    [UnsetAttachmentDescriptor EXCEPT !.texture = "dummy",
                                      !.loadAction = "MTLLoadActionDontCare",
                                      !.storeAction = "MTLStoreActionDontCare"]

\* MVKRenderSubpass::populateMTLRenderPassDescriptor: the descriptor it leaves.
\* attachments[i + 1] is the image view of attachment i: whether its texture is
\* memoryless, whether its pixel format is a depth and a stencil format, and whether
\* that format can be resolved to.
PopulateMTLRenderPassDescriptor(sp, passIdx, attachments, isRenderingEntireAttachment, loadOverride, junk) ==
    LET caCnt        == Len(sp.colorAttachments)
        dsRPAttIdx   == sp.depthStencilAttachment
        dsRslvRPAttIdx == sp.depthStencilResolveAttachment
        noAttachment == UsedColorAttachments(sp) = {} /\ dsRPAttIdx = VK_ATTACHMENT_UNUSED
        dummy        == noAttachment /\ ~device.renderWithoutAttachments
        colors       == [i \in 1 .. caCnt |->
                            ColorAttachmentDescriptor(sp, passIdx, i - 1, attachments,
                                isRenderingEntireAttachment, loadOverride, junk)]
        DS(isStencil, mode) ==
            FilledAttachmentDescriptor(sp, passIdx, dsRPAttIdx, dsRslvRPAttIdx, attachments,
                isRenderingEntireAttachment,
                dsRslvRPAttIdx # VK_ATTACHMENT_UNUSED /\ mode # "VK_RESOLVE_MODE_NONE",
                TRUE, isStencil, loadOverride, junk)
    IN  [colorAttachments |->
             IF ~dummy THEN colors
             ELSE IF caCnt = 0 THEN <<DummyAttachmentDescriptor>>
             ELSE [colors EXCEPT ![1] = DummyAttachmentDescriptor],
         depthAttachment |->
             IF dsRPAttIdx # VK_ATTACHMENT_UNUSED /\ attachments[dsRPAttIdx + 1].isDepthFormat
             THEN DS(FALSE, sp.depthResolveMode) ELSE UnsetAttachmentDescriptor,
         stencilAttachment |->
             IF dsRPAttIdx # VK_ATTACHMENT_UNUSED /\ attachments[dsRPAttIdx + 1].isStencilFormat
             THEN DS(TRUE, sp.stencilResolveMode) ELSE UnsetAttachmentDescriptor,
         defaultRasterSampleCount |->
             IF noAttachment /\ device.renderWithoutAttachments
             THEN "_defaultSampleCount" ELSE "unset"]

-----------------------------------------------------------------------------
(* MVKRenderSubpass: store actions set late, and resolves done by compute *)

\* MVKRenderPassAttachment::encodeStoreAction: the commands it issues on the render
\* encoder, none or one.
EncodeStoreAction(att, subpass, attachment, isRenderingEntireAttachment, hasResolveAttachment, canResolveFormat, caIdx, isStencil, storeOverride, junk) ==
    LET isDepthFormat   == attachment.isDepthFormat
        isStencilFormat == attachment.isStencilFormat
        isColorFormat   == ~(isDepthFormat \/ isStencilFormat)
        storeAction == GetMTLStoreAction(att, subpass, isRenderingEntireAttachment,
                                         attachment.isMemoryless, hasResolveAttachment,
                                         canResolveFormat, isStencil, storeOverride, junk)
    IN  IF isColorFormat
        THEN << [cmd |-> "setColorStoreAction", storeAction |-> storeAction,
                 atIndex |-> caIdx] >>
        ELSE IF isDepthFormat /\ ~isStencil
        THEN << [cmd |-> "setDepthStoreAction", storeAction |-> storeAction, atIndex |-> 0] >>
        ELSE IF isStencilFormat /\ isStencil
        THEN << [cmd |-> "setStencilStoreAction", storeAction |-> storeAction,
                 atIndex |-> 0] >>
        ELSE <<>>

\* The loop of encodeStoreActions over the color attachments from caIdx on.
RECURSIVE EncodeColorStoreActions(_, _, _, _, _, _)
EncodeColorStoreActions(sp, caIdx, isRenderingEntireAttachment, attachments, storeOverride, junk) ==
    IF caIdx >= Len(sp.colorAttachments) THEN <<>>
    ELSE LET clrRPAttIdx  == sp.colorAttachments[caIdx + 1]
             rslvRPAttIdx == IF sp.resolveAttachments = <<>> THEN VK_ATTACHMENT_UNUSED
                             ELSE sp.resolveAttachments[caIdx + 1]
             hasResolveAttachment == rslvRPAttIdx # VK_ATTACHMENT_UNUSED
             canResolveFormat == hasResolveAttachment /\ attachments[rslvRPAttIdx + 1].canResolve
         IN  (IF clrRPAttIdx # VK_ATTACHMENT_UNUSED
              THEN EncodeStoreAction(RPAttachment(clrRPAttIdx), sp, attachments[clrRPAttIdx + 1],
                                     isRenderingEntireAttachment, hasResolveAttachment,
                                     canResolveFormat, caIdx, FALSE, storeOverride,
                                     junk[clrRPAttIdx])
              ELSE <<>>)
             \o EncodeColorStoreActions(sp, caIdx + 1, isRenderingEntireAttachment,
                                        attachments, storeOverride, junk)

\* encodeStoreActions not asking whether the device has deferred store actions; C22
\* does not hold of it.
EncodeStoreActionsOnAnyDevice(sp, hasRenderEncoder, isRenderingEntireAttachment, attachments, storeOverride, junk) ==
    IF ~hasRenderEncoder THEN <<>>
    ELSE EncodeColorStoreActions(sp, 0, isRenderingEntireAttachment, attachments,
                                 storeOverride, junk)

\* MVKRenderSubpass::encodeStoreActions: the commands it issues on the render encoder.
\* hasRenderEncoder is whether cmdEncoder->_mtlRenderEncoder is set.
EncodeStoreActions(sp, hasRenderEncoder, isRenderingEntireAttachment, attachments, storeOverride, junk) ==
    IF ~hasRenderEncoder THEN <<>>
    ELSE IF ~device.deferredStoreActions THEN <<>>
    ELSE LET dsRPAttIdx == sp.depthStencilAttachment
             hasResolveAttachment == sp.depthStencilResolveAttachment # VK_ATTACHMENT_UNUSED
             DS(isStencil, mode) ==
                 EncodeStoreAction(RPAttachment(dsRPAttIdx), sp, attachments[dsRPAttIdx + 1],
                                   isRenderingEntireAttachment,
                                   hasResolveAttachment /\ mode # "VK_RESOLVE_MODE_NONE",
                                   TRUE, 0, isStencil, storeOverride, junk[dsRPAttIdx])
         IN  EncodeColorStoreActions(sp, 0, isRenderingEntireAttachment, attachments,
                                     storeOverride, junk)
             \o (IF dsRPAttIdx # VK_ATTACHMENT_UNUSED
                 THEN DS(FALSE, sp.depthResolveMode) \o DS(TRUE, sp.stencilResolveMode)
                 ELSE <<>>)

\* The loop of resolveUnresolvableAttachments not asking whether the format of the
\* resolve attachment can be resolved to; C26 does not hold of it.
RECURSIVE ResolveLoopOfAnyFormat(_, _, _)
ResolveLoopOfAnyFormat(sp, raIdx, attachments) ==
    IF raIdx >= Len(sp.resolveAttachments) THEN <<>>
    ELSE LET ra == sp.resolveAttachments[raIdx + 1]
             ca == sp.colorAttachments[raIdx + 1]
         IN  (IF ra # VK_ATTACHMENT_UNUSED /\ ca # VK_ATTACHMENT_UNUSED
              THEN << [raIdx |-> raIdx, resolveTexture |-> ra, colorTexture |-> ca] >>
              ELSE <<>>)
             \o ResolveLoopOfAnyFormat(sp, raIdx + 1, attachments)

\* The loop of resolveUnresolvableAttachments over the resolve attachments from
\* raIdx on: the compute resolves dispatched, each from the texture of a color
\* attachment to the texture of its resolve attachment.
RECURSIVE ResolveLoop(_, _, _)
ResolveLoop(sp, raIdx, attachments) ==
    IF raIdx >= Len(sp.resolveAttachments) THEN <<>>
    ELSE LET ra == sp.resolveAttachments[raIdx + 1]
             ca == sp.colorAttachments[raIdx + 1]
         IN  (IF ra # VK_ATTACHMENT_UNUSED /\ ca # VK_ATTACHMENT_UNUSED
                    /\ ~attachments[ra + 1].canResolve
              THEN << [raIdx |-> raIdx, resolveTexture |-> ra, colorTexture |-> ca] >>
              ELSE <<>>)
             \o ResolveLoop(sp, raIdx + 1, attachments)

\* MVKRenderSubpass::resolveUnresolvableAttachments
ResolveUnresolvableAttachments(sp, attachments) == ResolveLoop(sp, 0, attachments)

-----------------------------------------------------------------------------
(* What a render pass is created from *)

\* Number of attachments a render pass is created with, at most.
MaxAttachments == 1

NoRefs ==
    [inputAttachments |-> <<>>, colorAttachments |-> <<>>, resolveAttachments |-> <<>>,
     depthStencilAttachment |-> VK_ATTACHMENT_UNUSED]

\* The VkSubpassDescriptions drawn on: a subpass that uses no attachment, or uses
\* attachment a as input, as color or as depth/stencil attachment.
SubpassDescriptions(attachmentCount) ==
    {NoRefs}
    \cup UNION {
        { [NoRefs EXCEPT !.inputAttachments = <<a>>],
          [NoRefs EXCEPT !.colorAttachments = <<a>>],
          [NoRefs EXCEPT !.depthStencilAttachment = a] }
        : a \in 0 .. attachmentCount - 1 }

\* The VkSubpassDescription2s drawn on: a subpass that uses no attachment, or uses
\* attachment a as the resolve attachment of an unused color slot or as the
\* depth/stencil resolve attachment chained to the description.
SubpassDescriptions2(attachmentCount, viewMasks) ==
    { [viewMask |-> m,
       inputAttachments |-> <<>>,
       colorAttachments |-> d.colorAttachments,
       resolveAttachments |-> d.resolveAttachments,
       depthStencilAttachment |-> VK_ATTACHMENT_UNUSED,
       depthStencilResolveAttachment |-> d.depthStencilResolveAttachment,
       depthResolveMode |-> "VK_RESOLVE_MODE_SAMPLE_ZERO_BIT",
       stencilResolveMode |-> "VK_RESOLVE_MODE_NONE"]
      : m \in viewMasks,
        d \in { [colorAttachments |-> <<>>, resolveAttachments |-> <<>>,
                 depthStencilResolveAttachment |-> VK_ATTACHMENT_UNUSED] }
              \cup UNION {
                  { [colorAttachments |-> <<VK_ATTACHMENT_UNUSED>>,
                     resolveAttachments |-> <<a>>,
                     depthStencilResolveAttachment |-> VK_ATTACHMENT_UNUSED],
                    [colorAttachments |-> <<>>, resolveAttachments |-> <<>>,
                     depthStencilResolveAttachment |-> a] }
                  : a \in 0 .. attachmentCount - 1 } }

LoadOps == {"VK_ATTACHMENT_LOAD_OP_LOAD", "VK_ATTACHMENT_LOAD_OP_CLEAR",
            "VK_ATTACHMENT_LOAD_OP_DONT_CARE"}

StoreOps == {"VK_ATTACHMENT_STORE_OP_STORE", "VK_ATTACHMENT_STORE_OP_DONT_CARE"}

\* The view masks of the subpasses are all zero or all non-zero.
CreateViewMasks == IF createInfo.multiview THEN PassMasks ELSE {0}

\* What a read past the end of a view mask vector may yield.
JunkMasks == 0 .. (2^PassViews - 1)

NoCall == [op |-> "none"]

-----------------------------------------------------------------------------
(* MVKRenderPass: construction *)

\* The constructor going on to the attachments after its first subpass; C18 does
\* not hold of it.
AfterSubpassesEarly(n) ==
    IF createInfo.attachmentCount = 0
    THEN IF n < createInfo.subpassCount THEN "subpasses" ELSE "done"
    ELSE "attachments"

\* Where the constructor goes on after it has built n subpasses.
AfterSubpasses(n) ==
    IF n < createInfo.subpassCount THEN "subpasses"
    ELSE IF createInfo.attachmentCount = 0 THEN "done" ELSE "attachments"

\* MVKRenderPass(device, VkRenderPassCreateInfo*): one turn of the subpass loop, the
\* subpass described by one of descs.
AddSubpassOf(descs) ==
    /\ pc = "subpasses"
    /\ createInfo.sType = "VkRenderPassCreateInfo"
    /\ \E desc \in descs, viewMask \in CreateViewMasks :
          _subpasses' = Append(_subpasses, NewSubpass(desc, viewMask))
    /\ pc' = AfterSubpasses(Len(_subpasses) + 1)
    /\ UNCHANGED <<device, _attachments, createInfo, _configurationResult, ret>>

AddSubpass == AddSubpassOf(SubpassDescriptions(createInfo.attachmentCount))

\* MVKRenderPass(device, VkRenderPassCreateInfo2*): one turn of the subpass loop, the
\* subpass described by one of descs.
AddSubpass2Of(descs) ==
    /\ pc = "subpasses"
    /\ createInfo.sType = "VkRenderPassCreateInfo2"
    /\ \E desc \in descs :
          _subpasses' = Append(_subpasses, NewSubpass2(desc))
    /\ pc' = AfterSubpasses(Len(_subpasses) + 1)
    /\ UNCHANGED <<device, _attachments, createInfo, _configurationResult, ret>>

AddSubpass2 == AddSubpass2Of(SubpassDescriptions2(createInfo.attachmentCount, CreateViewMasks))

\* A format that is supported and has every capability.
AnyUseFormat == [supported |-> TRUE, caps |-> FmtCaps]

\* Either constructor: one turn of the attachment loop, the attachment described
\* by one of infos.
AddAttachmentDescribed(infos) ==
    /\ pc = "attachments"
    /\ \E info \in infos :
          LET att == NewAttachment(info)
          IN  /\ _attachments' = Append(_attachments, att)
              /\ _configurationResult' = ValidateFormatResult(att, _configurationResult)
    /\ pc' = IF Len(_attachments) + 1 < createInfo.attachmentCount
             THEN "attachments" ELSE "done"
    /\ UNCHANGED <<device, _subpasses, createInfo, ret>>

\* The same, the attachment described with one sample and a format of formats.
AddAttachmentOfFormat(loadOps, storeOps, formats) ==
    AddAttachmentDescribed([format : formats, samples : {"VK_SAMPLE_COUNT_1_BIT"},
                            loadOp : loadOps, stencilLoadOp : loadOps,
                            storeOp : storeOps, stencilStoreOp : storeOps])

\* The same, the attachment described with a format fit for any use.
AddAttachment(loadOps, storeOps) == AddAttachmentOfFormat(loadOps, storeOps, {AnyUseFormat})

CreateInfos ==
    [sType           : {"VkRenderPassCreateInfo", "VkRenderPassCreateInfo2"},
     subpassCount    : 1 .. MaxSubpasses,
     attachmentCount : 0 .. MaxAttachments,
     multiview       : BOOLEAN]

InitConstruction ==
    /\ pc = "subpasses"
    /\ createInfo \in CreateInfos
    /\ _subpasses = <<>>
    /\ _attachments = <<>>
    /\ _configurationResult = "VK_SUCCESS"
    /\ ret = NoCall

-----------------------------------------------------------------------------
(* Calls on the constructed render pass *)

\* A call is made when the render pass is complete and no call is under way.
CanCall == pc = "done" /\ ret = NoCall

\* The call returns to its caller.
Return ==
    /\ ret # NoCall
    /\ ret' = NoCall
    /\ UNCHANGED <<pc, device, _subpasses, _attachments, createInfo, _configurationResult>>

Subpasses == 1 .. Len(_subpasses)

Attachments == 1 .. Len(_attachments)

CallIsFirstUseOfAttachment ==
    /\ CanCall
    /\ \E a \in Attachments, s \in Subpasses, junk \in JunkMasks :
          ret' = [op |-> "isFirstUseOfAttachment", att |-> a, subpass |-> s,
                  entry |-> ViewMaskEntry(_attachments[a].firstUseViewMasks,
                                          _subpasses[s].subpassIndex, junk),
                  value |-> IsFirstUseOfAttachment(_attachments[a], _subpasses[s], junk)]
    /\ UNCHANGED <<pc, device, _subpasses, _attachments, createInfo, _configurationResult>>

CallIsLastUseOfAttachment ==
    /\ CanCall
    /\ \E a \in Attachments, s \in Subpasses, junk \in JunkMasks :
          ret' = [op |-> "isLastUseOfAttachment", att |-> a, subpass |-> s,
                  entry |-> ViewMaskEntry(_attachments[a].lastUseViewMasks,
                                          _subpasses[s].subpassIndex, junk),
                  value |-> IsLastUseOfAttachment(_attachments[a], _subpasses[s], junk)]
    /\ UNCHANGED <<pc, device, _subpasses, _attachments, createInfo, _configurationResult>>

\* shouldClearAttachment noting in the attachment that it has been cleared, so that
\* it is not cleared twice; C19 does not hold of it.
CallShouldClearAttachmentOnce ==
    /\ CanCall
    /\ \E a \in Attachments, s \in Subpasses, isStencil \in BOOLEAN, junk \in JunkMasks :
          LET value == ShouldClearAttachment(_attachments[a], _subpasses[s], isStencil, junk)
          IN  /\ ret' = [op |-> "shouldClearAttachment", att |-> a, subpass |-> s,
                         isStencil |-> isStencil,
                         entry |-> ViewMaskEntry(_attachments[a].firstUseViewMasks,
                                                 _subpasses[s].subpassIndex, junk),
                         value |-> value]
              /\ _attachments' =
                    IF value
                    THEN [_attachments EXCEPT
                             ![a].info.loadOp = "VK_ATTACHMENT_LOAD_OP_LOAD",
                             ![a].info.stencilLoadOp = "VK_ATTACHMENT_LOAD_OP_LOAD"]
                    ELSE _attachments
    /\ UNCHANGED <<pc, device, _subpasses, createInfo, _configurationResult>>

CallShouldClearAttachment ==
    /\ CanCall
    /\ \E a \in Attachments, s \in Subpasses, isStencil \in BOOLEAN, junk \in JunkMasks :
          ret' = [op |-> "shouldClearAttachment", att |-> a, subpass |-> s,
                  isStencil |-> isStencil,
                  entry |-> ViewMaskEntry(_attachments[a].firstUseViewMasks,
                                          _subpasses[s].subpassIndex, junk),
                  value |-> ShouldClearAttachment(_attachments[a], _subpasses[s],
                                                  isStencil, junk)]
    /\ UNCHANGED <<pc, device, _subpasses, _attachments, createInfo, _configurationResult>>

\* The render pass is created and its attachments asked for their first and last use.
Init ==
    /\ InitConstruction
    /\ device = [canUseInstancingForMultiview |-> FALSE,
                 combinedStoreResolveAction   |-> FALSE]

Next ==
    \/ AddSubpass
    \/ AddSubpass2
    \/ AddAttachment(LoadOps, {"VK_ATTACHMENT_STORE_OP_STORE"})
    \/ CallIsFirstUseOfAttachment
    \/ CallIsLastUseOfAttachment
    \/ CallShouldClearAttachment
    \/ Return

Spec == Init /\ [][Next]_vars

-----------------------------------------------------------------------------
(* The store action of an attachment *)

\* Number of subpasses of the render passes whose store actions are asked for, at most.
StoreSubpasses == 2

CallGetMTLStoreAction ==
    /\ CanCall
    /\ \E a \in Attachments, s \in Subpasses, junk \in JunkMasks,
          isRenderingEntireAttachment \in BOOLEAN, isMemorylessAttachment \in BOOLEAN,
          hasResolveAttachment \in BOOLEAN, canResolveFormat \in BOOLEAN,
          isStencil \in BOOLEAN, storeOverride \in BOOLEAN :
          ret' = [op |-> "getMTLStoreAction", att |-> a, subpass |-> s,
                  isRenderingEntireAttachment |-> isRenderingEntireAttachment,
                  isMemorylessAttachment |-> isMemorylessAttachment,
                  hasResolveAttachment |-> hasResolveAttachment,
                  canResolveFormat |-> canResolveFormat,
                  isStencil |-> isStencil,
                  storeOverride |-> storeOverride,
                  isLastUse |-> IsLastUseOfAttachment(_attachments[a], _subpasses[s], junk),
                  value |-> GetMTLStoreAction(_attachments[a], _subpasses[s],
                                isRenderingEntireAttachment, isMemorylessAttachment,
                                hasResolveAttachment, canResolveFormat,
                                isStencil, storeOverride, junk)]
    /\ UNCHANGED <<pc, device, _subpasses, _attachments, createInfo, _configurationResult>>

InitStore ==
    /\ InitConstruction
    /\ createInfo.subpassCount <= StoreSubpasses
    /\ device \in [canUseInstancingForMultiview : {FALSE},
                   combinedStoreResolveAction   : BOOLEAN]

NextStore ==
    \/ AddSubpass
    \/ AddSubpass2
    \/ AddAttachment({"VK_ATTACHMENT_LOAD_OP_LOAD"}, StoreOps)
    \/ CallGetMTLStoreAction
    \/ Return

SpecStore == InitStore /\ [][NextStore]_vars

-----------------------------------------------------------------------------
(* The load action of an attachment *)

\* The image views drawn on: memoryless or not, of a color, a depth, a stencil or a
\* combined depth and stencil format.
ImageViews ==
    [isMemoryless : BOOLEAN, isDepthFormat : BOOLEAN, isStencilFormat : BOOLEAN]

CallPopulateMTLRenderPassAttachmentDescriptor ==
    /\ CanCall
    /\ \E a \in Attachments, s \in Subpasses, junk \in JunkMasks, attachment \in ImageViews,
          isRenderingEntireAttachment \in BOOLEAN, hasResolveAttachment \in BOOLEAN,
          canResolveFormat \in BOOLEAN, isStencil \in BOOLEAN, loadOverride \in BOOLEAN :
          LET r == PopulateMTLRenderPassAttachmentDescriptor(
                       _attachments[a], _subpasses[s], attachment,
                       isRenderingEntireAttachment, hasResolveAttachment,
                       canResolveFormat, isStencil, loadOverride, junk)
          IN  ret' = [op |-> "populateMTLRenderPassAttachmentDescriptor",
                      att |-> a, subpass |-> s, attachment |-> attachment,
                      isRenderingEntireAttachment |-> isRenderingEntireAttachment,
                      hasResolveAttachment |-> hasResolveAttachment,
                      canResolveFormat |-> canResolveFormat,
                      isStencil |-> isStencil,
                      loadOverride |-> loadOverride,
                      isFirstUse |-> IsFirstUseOfAttachment(_attachments[a],
                                                            _subpasses[s], junk),
                      mtlAttDesc |-> [loadAction |-> r.loadAction,
                                      storeAction |-> r.storeAction],
                      value |-> r.value]
    /\ UNCHANGED <<pc, device, _subpasses, _attachments, createInfo, _configurationResult>>

InitLoad ==
    /\ InitConstruction
    /\ createInfo.subpassCount <= StoreSubpasses
    /\ device \in [canUseInstancingForMultiview : {FALSE},
                   combinedStoreResolveAction   : {FALSE},
                   deferredStoreActions         : BOOLEAN]

NextLoad ==
    \/ AddSubpass
    \/ AddSubpass2
    \/ AddAttachment(LoadOps, {"VK_ATTACHMENT_STORE_OP_DONT_CARE"})
    \/ CallPopulateMTLRenderPassAttachmentDescriptor
    \/ Return

SpecLoad == InitLoad /\ [][NextLoad]_vars

-----------------------------------------------------------------------------
(* The format capabilities a subpass requires of an attachment *)

\* Number of references in a list of attachment references of a subpass, at most.
MaxRefs == 2

\* The lists of at most n attachment references drawn from refs.
RECURSIVE RefLists(_, _)
RefLists(refs, n) ==
    IF n = 0 THEN {<<>>}
    ELSE LET shorter == RefLists(refs, n - 1)
         IN  shorter \cup {Append(l, r) : l \in {s \in shorter : Len(s) = n - 1}, r \in refs}

\* getRequiredFormatCapabilitiesForAttachmentAt called while the constructor is at
\* `phase`.
CallGetRequiredFormatCapabilitiesForAttachmentAtWhen(phase) ==
    /\ pc = phase
    /\ ret = NoCall
    /\ \E s \in Subpasses : \E rpAttIdx \in 0 .. createInfo.attachmentCount - 1 :
          ret' = [op |-> "getRequiredFormatCapabilitiesForAttachmentAt",
                  subpass |-> s, rpAttIdx |-> rpAttIdx,
                  value |-> GetRequiredFormatCapabilitiesForAttachmentAt(_subpasses[s],
                                                                         rpAttIdx)]
    /\ UNCHANGED <<pc, device, _subpasses, _attachments, createInfo, _configurationResult>>

\* getRequiredFormatCapabilitiesForAttachmentAt is called by validateFormat of the
\* attachment under construction, with its attachment index.
CallGetRequiredFormatCapabilitiesForAttachmentAt ==
    CallGetRequiredFormatCapabilitiesForAttachmentAtWhen("attachments")

\* A render pass whose one subpass has been built from a VkSubpassDescription2 with
\* any lists of input and color attachments, no resolve attachments or one for each
\* color attachment, and any depth/stencil and depth/stencil resolve attachment;
\* its attachments are about to be built.
InitCaps ==
    /\ pc = "attachments"
    /\ createInfo = [sType |-> "VkRenderPassCreateInfo2", subpassCount |-> 1,
                     attachmentCount |-> MaxAttachments, multiview |-> FALSE]
    /\ LET refs == {VK_ATTACHMENT_UNUSED} \cup (0 .. MaxAttachments - 1)
           lists == RefLists(refs, MaxRefs)
       IN  \E input \in lists, color \in lists, resolve \in lists, ds \in refs, dsResolve \in refs :
              /\ resolve = <<>> \/ Len(resolve) = Len(color)
              /\ _subpasses = << [subpassIndex |-> 0, viewMask |-> 0,
                                  inputAttachments |-> input,
                                  colorAttachments |-> color,
                                  resolveAttachments |-> resolve,
                                  depthStencilAttachment |-> ds,
                                  depthStencilResolveAttachment |-> dsResolve,
                                  depthResolveMode |->
                                      IF dsResolve = VK_ATTACHMENT_UNUSED
                                      THEN "VK_RESOLVE_MODE_NONE"
                                      ELSE "VK_RESOLVE_MODE_SAMPLE_ZERO_BIT",
                                  stencilResolveMode |-> "VK_RESOLVE_MODE_NONE"] >>
    /\ _attachments = <<>>
    /\ _configurationResult = "VK_SUCCESS"
    /\ device = [canUseInstancingForMultiview |-> FALSE,
                 combinedStoreResolveAction   |-> FALSE]
    /\ ret = NoCall

NextCaps ==
    \/ CallGetRequiredFormatCapabilitiesForAttachmentAt
    \/ Return

SpecCaps == InitCaps /\ [][NextCaps]_vars

-----------------------------------------------------------------------------
(* Construction with attachments of any format *)

\* Number of attachments of the render passes built with any format, at most.
BuildAttachments == 2

\* A render pass without multiview of at most StoreSubpasses subpasses and
\* BuildAttachments attachments is created.
InitBuild ==
    /\ pc = "subpasses"
    /\ createInfo \in [sType           : {"VkRenderPassCreateInfo", "VkRenderPassCreateInfo2"},
                       subpassCount    : 1 .. StoreSubpasses,
                       attachmentCount : 0 .. BuildAttachments,
                       multiview       : {FALSE}]
    /\ _subpasses = <<>>
    /\ _attachments = <<>>
    /\ _configurationResult = "VK_SUCCESS"
    /\ device = [canUseInstancingForMultiview |-> FALSE,
                 combinedStoreResolveAction   |-> FALSE]
    /\ ret = NoCall

NextBuild ==
    \/ AddSubpass
    \/ AddSubpass2
    \/ AddAttachmentOfFormat({"VK_ATTACHMENT_LOAD_OP_LOAD"}, {"VK_ATTACHMENT_STORE_OP_STORE"},
                             Formats)

\* The constructor runs on until it returns: nothing makes it wait.
SpecBuild == InitBuild /\ [][NextBuild]_vars /\ WF_vars(NextBuild)

-----------------------------------------------------------------------------
(* The view mask queries of a subpass *)

\* The pass indices a caller may pass: below the pass count (the queries assert it).
PassIndices(sp) ==
    IF sp.viewMask = 0 THEN {0}
    ELSE 0 .. GetMultiviewMetalPassCount(sp) - 1

CallGetMultiviewMetalPassCount ==
    /\ CanCall
    /\ \E s \in Subpasses :
          ret' = [op |-> "getMultiviewMetalPassCount", subpass |-> s,
                  value |-> GetMultiviewMetalPassCount(_subpasses[s])]
    /\ UNCHANGED <<pc, device, _subpasses, _attachments, createInfo, _configurationResult>>

CallGetFirstViewIndexInMetalPass ==
    /\ CanCall
    /\ \E s \in Subpasses : \E passIdx \in PassIndices(_subpasses[s]) :
          ret' = [op |-> "getFirstViewIndexInMetalPass", subpass |-> s, passIdx |-> passIdx,
                  value |-> GetFirstViewIndexInMetalPass(_subpasses[s], passIdx)]
    /\ UNCHANGED <<pc, device, _subpasses, _attachments, createInfo, _configurationResult>>

CallGetViewCountInMetalPass ==
    /\ CanCall
    /\ \E s \in Subpasses : \E passIdx \in PassIndices(_subpasses[s]) :
          ret' = [op |-> "getViewCountInMetalPass", subpass |-> s, passIdx |-> passIdx,
                  value |-> GetViewCountInMetalPass(_subpasses[s], passIdx)]
    /\ UNCHANGED <<pc, device, _subpasses, _attachments, createInfo, _configurationResult>>

CallGetViewMaskGroupForMetalPass ==
    /\ CanCall
    /\ \E s \in Subpasses : \E passIdx \in PassIndices(_subpasses[s]) :
          ret' = [op |-> "getViewMaskGroupForMetalPass", subpass |-> s, passIdx |-> passIdx,
                  value |-> GetViewMaskGroupForMetalPass(_subpasses[s], passIdx)]
    /\ UNCHANGED <<pc, device, _subpasses, _attachments, createInfo, _configurationResult>>

CallGetViewCountUpToMetalPass ==
    /\ CanCall
    /\ \E s \in Subpasses : \E passIdx \in PassIndices(_subpasses[s]) :
          ret' = [op |-> "getViewCountUpToMetalPass", subpass |-> s, passIdx |-> passIdx,
                  value |-> GetViewCountUpToMetalPass(_subpasses[s], passIdx)]
    /\ UNCHANGED <<pc, device, _subpasses, _attachments, createInfo, _configurationResult>>

\* A render pass of one subpass that uses no attachment, with any view mask, on a
\* device that can or cannot use instancing for multiview.
InitViews ==
    /\ pc = "done"
    /\ \E m \in ViewMasks :
          /\ createInfo = [sType |-> "VkRenderPassCreateInfo2", subpassCount |-> 1,
                           attachmentCount |-> 0, multiview |-> (m # 0)]
          /\ _subpasses = << [subpassIndex |-> 0, viewMask |-> m,
                              inputAttachments |-> <<>>, colorAttachments |-> <<>>,
                              resolveAttachments |-> <<>>,
                              depthStencilAttachment |-> VK_ATTACHMENT_UNUSED,
                              depthStencilResolveAttachment |-> VK_ATTACHMENT_UNUSED,
                              depthResolveMode |-> "VK_RESOLVE_MODE_NONE",
                              stencilResolveMode |-> "VK_RESOLVE_MODE_NONE"] >>
    /\ _attachments = <<>>
    /\ _configurationResult = "VK_SUCCESS"
    /\ device \in [canUseInstancingForMultiview : BOOLEAN,
                   combinedStoreResolveAction   : {FALSE}]
    /\ ret = NoCall

NextViews ==
    \/ CallGetMultiviewMetalPassCount
    \/ CallGetFirstViewIndexInMetalPass
    \/ CallGetViewCountInMetalPass
    \/ CallGetViewMaskGroupForMetalPass
    \/ CallGetViewCountUpToMetalPass
    \/ Return

SpecViews == InitViews /\ [][NextViews]_vars

-----------------------------------------------------------------------------
(* Every query of the constructed render pass *)

\* What the out-of-vector reads of a call yield, for each attachment index.
AttachmentJunks == [0 .. Len(_attachments) - 1 -> JunkMasks]

\* The image views a framebuffer holds: of a color format that can be resolved to,
\* or memoryless and of a combined depth and stencil format that cannot.
FramebufferViews ==
    { [isMemoryless |-> FALSE, isDepthFormat |-> FALSE, isStencilFormat |-> FALSE,
       canResolve |-> TRUE],
      [isMemoryless |-> TRUE, isDepthFormat |-> TRUE, isStencilFormat |-> TRUE,
       canResolve |-> FALSE] }

\* The aspect masks populateMultiviewClearRects is called with.
AspectMasks ==
    { {"VK_IMAGE_ASPECT_COLOR_BIT"}, {"VK_IMAGE_ASPECT_DEPTH_BIT"},
      {"VK_IMAGE_ASPECT_DEPTH_BIT", "VK_IMAGE_ASPECT_STENCIL_BIT"} }

CallGetSampleCount ==
    /\ CanCall
    /\ \E s \in Subpasses :
          ret' = [op |-> "getSampleCount", subpass |-> s,
                  value |-> GetSampleCount(_subpasses[s])]
    /\ UNCHANGED <<pc, device, _subpasses, _attachments, createInfo, _configurationResult>>

\* populateClearAttachments appends to the list it is handed, here an empty one.
CallPopulateClearAttachments ==
    /\ CanCall
    /\ \E s \in Subpasses, isDepthFormat \in BOOLEAN, isStencilFormat \in BOOLEAN, junk \in AttachmentJunks :
          ret' = [op |-> "populateClearAttachments", subpass |-> s,
                  isDepthFormat |-> isDepthFormat, isStencilFormat |-> isStencilFormat,
                  value |-> PopulateClearAttachments(_subpasses[s], <<>>, isDepthFormat,
                                                     isStencilFormat, junk)]
    /\ UNCHANGED <<pc, device, _subpasses, _attachments, createInfo, _configurationResult>>

\* populateMultiviewClearRects is called for the subpass of the command encoder when
\* it is multiview, with the index of one of its color attachments, and appends to
\* the list it is handed, here an empty one.
CallPopulateMultiviewClearRects ==
    /\ CanCall
    /\ \E s \in Subpasses, aspectMask \in AspectMasks, junk \in AttachmentJunks :
       \E passIdx \in PassIndices(_subpasses[s]) :
       \E caIdx \in IF aspectMask = {"VK_IMAGE_ASPECT_COLOR_BIT"}
                    THEN 0 .. Len(_subpasses[s].colorAttachments) - 1 ELSE {0} :
          /\ SubpassIsMultiview(_subpasses[s])
          /\ ret' = [op |-> "populateMultiviewClearRects", subpass |-> s,
                     passIdx |-> passIdx, caIdx |-> caIdx, aspectMask |-> aspectMask,
                     value |-> PopulateMultiviewClearRects(_subpasses[s], passIdx, <<>>,
                                                           caIdx, aspectMask, junk)]
    /\ UNCHANGED <<pc, device, _subpasses, _attachments, createInfo, _configurationResult>>

CallPopulateMTLRenderPassDescriptor ==
    /\ CanCall
    /\ \E s \in Subpasses, attachments \in [Attachments -> FramebufferViews], isRenderingEntireAttachment \in BOOLEAN, loadOverride \in BOOLEAN, junk \in AttachmentJunks :
       \E passIdx \in PassIndices(_subpasses[s]) :
          ret' = [op |-> "populateMTLRenderPassDescriptor", subpass |-> s,
                  passIdx |-> passIdx, attachments |-> attachments,
                  isRenderingEntireAttachment |-> isRenderingEntireAttachment,
                  loadOverride |-> loadOverride,
                  value |-> PopulateMTLRenderPassDescriptor(_subpasses[s], passIdx,
                                attachments, isRenderingEntireAttachment, loadOverride,
                                junk)]
    /\ UNCHANGED <<pc, device, _subpasses, _attachments, createInfo, _configurationResult>>

\* The VkSubpassDescriptions of the render passes queried: attachment 0 as color and
\* attachment 1 as input attachment, attachment 1 as depth/stencil attachment, or no
\* attachment.
QueryDescriptions ==
    { [NoRefs EXCEPT !.colorAttachments = <<0>>, !.inputAttachments = <<1>>],
      [NoRefs EXCEPT !.depthStencilAttachment = 1],
      NoRefs }

\* Their VkSubpassDescription2s: attachment 0 as color attachment resolved to
\* attachment 1, attachment 0 as depth/stencil attachment whose depth is resolved to
\* attachment 1, or an unused color attachment.
QueryDescriptions2 ==
    { [viewMask |-> m,
       inputAttachments |-> <<>>,
       colorAttachments |-> d.colorAttachments,
       resolveAttachments |-> d.resolveAttachments,
       depthStencilAttachment |-> d.depthStencilAttachment,
       depthStencilResolveAttachment |-> d.depthStencilResolveAttachment,
       depthResolveMode |-> "VK_RESOLVE_MODE_SAMPLE_ZERO_BIT",
       stencilResolveMode |-> "VK_RESOLVE_MODE_NONE"]
      : m \in CreateViewMasks,
        d \in { [colorAttachments |-> <<0>>, resolveAttachments |-> <<1>>,
                 depthStencilAttachment |-> VK_ATTACHMENT_UNUSED,
                 depthStencilResolveAttachment |-> VK_ATTACHMENT_UNUSED],
                [colorAttachments |-> <<>>, resolveAttachments |-> <<>>,
                 depthStencilAttachment |-> 0,
                 depthStencilResolveAttachment |-> 1],
                [colorAttachments |-> <<VK_ATTACHMENT_UNUSED>>, resolveAttachments |-> <<>>,
                 depthStencilAttachment |-> VK_ATTACHMENT_UNUSED,
                 depthStencilResolveAttachment |-> VK_ATTACHMENT_UNUSED] } }

\* Their VkAttachmentDescriptions: cleared and of four samples, or loaded and of one.
QueryAttachmentInfos ==
    { [format |-> AnyUseFormat, samples |-> "VK_SAMPLE_COUNT_4_BIT",
       loadOp |-> "VK_ATTACHMENT_LOAD_OP_CLEAR", stencilLoadOp |-> "VK_ATTACHMENT_LOAD_OP_CLEAR",
       storeOp |-> "VK_ATTACHMENT_STORE_OP_STORE",
       stencilStoreOp |-> "VK_ATTACHMENT_STORE_OP_DONT_CARE"],
      [format |-> AnyUseFormat, samples |-> "VK_SAMPLE_COUNT_1_BIT",
       loadOp |-> "VK_ATTACHMENT_LOAD_OP_LOAD", stencilLoadOp |-> "VK_ATTACHMENT_LOAD_OP_LOAD",
       storeOp |-> "VK_ATTACHMENT_STORE_OP_DONT_CARE",
       stencilStoreOp |-> "VK_ATTACHMENT_STORE_OP_STORE"] }

\* A render pass of at most StoreSubpasses subpasses and BuildAttachments
\* attachments is created, with multiview only from a VkRenderPassCreateInfo2, on a
\* device whose Metal can or cannot render without attachments.
InitQueries ==
    /\ pc = "subpasses"
    /\ createInfo \in [sType           : {"VkRenderPassCreateInfo", "VkRenderPassCreateInfo2"},
                       subpassCount    : 1 .. StoreSubpasses,
                       attachmentCount : {BuildAttachments},
                       multiview       : BOOLEAN]
    /\ createInfo.multiview => createInfo.sType = "VkRenderPassCreateInfo2"
    /\ _subpasses = <<>>
    /\ _attachments = <<>>
    /\ _configurationResult = "VK_SUCCESS"
    /\ device \in [canUseInstancingForMultiview : {FALSE},
                   combinedStoreResolveAction   : {FALSE},
                   deferredStoreActions         : {FALSE},
                   renderWithoutAttachments     : BOOLEAN]
    /\ ret = NoCall

NextQueries ==
    \/ AddSubpassOf(QueryDescriptions)
    \/ AddSubpass2Of(QueryDescriptions2)
    \/ AddAttachmentDescribed(QueryAttachmentInfos)
    \/ CallGetMultiviewMetalPassCount
    \/ CallGetFirstViewIndexInMetalPass
    \/ CallGetViewCountInMetalPass
    \/ CallGetViewMaskGroupForMetalPass
    \/ CallGetViewCountUpToMetalPass
    \/ CallIsFirstUseOfAttachment
    \/ CallIsLastUseOfAttachment
    \/ CallShouldClearAttachment
    \/ CallGetMTLStoreAction
    \/ CallPopulateMTLRenderPassAttachmentDescriptor
    \/ CallPopulateMTLRenderPassDescriptor
    \/ CallPopulateClearAttachments
    \/ CallPopulateMultiviewClearRects
    \/ CallGetRequiredFormatCapabilitiesForAttachmentAtWhen("done")
    \/ CallGetSampleCount
    \/ Return

SpecQueries == InitQueries /\ [][NextQueries]_vars

-----------------------------------------------------------------------------
(* The recording of a subpass *)

\* The image views of a framebuffer recorded to: of a color format, memoryless or
\* not, that can be resolved to or not; or of a depth, a stencil or a combined depth
\* and stencil format.
RecordViews ==
    [isMemoryless : BOOLEAN, isDepthFormat : {FALSE}, isStencilFormat : {FALSE},
     canResolve : BOOLEAN]
    \cup [isMemoryless : {FALSE}, isDepthFormat : {TRUE}, isStencilFormat : BOOLEAN,
          canResolve : {TRUE}]
    \cup [isMemoryless : {FALSE}, isDepthFormat : {FALSE}, isStencilFormat : {TRUE},
          canResolve : {TRUE}]

\* The framebuffer fits the subpass: its color and resolve attachments have views of
\* a color format, its depth/stencil attachment and the resolve attachment of that
\* have views of a depth or stencil format.
FormatsFitRoles(sp, attachments) ==
    LET IsColor(i) == ~attachments[i + 1].isDepthFormat /\ ~attachments[i + 1].isStencilFormat
        Refs(list) == {list[k] : k \in 1 .. Len(list)}
    IN  /\ \A i \in (Refs(sp.colorAttachments) \cup Refs(sp.resolveAttachments))
                        \ {VK_ATTACHMENT_UNUSED} : IsColor(i)
        /\ \A i \in {sp.depthStencilAttachment, sp.depthStencilResolveAttachment}
                        \ {VK_ATTACHMENT_UNUSED} : ~IsColor(i)

\* The subpasses recorded are not multiview and read no view mask: nothing is read
\* past the end of a view mask vector.
NoJunks == {[i \in 0 .. Len(_attachments) - 1 |-> 0]}

\* The order in which the command encoder calls on the subpass it records: the
\* descriptor is populated when the Metal render pass begins, the store actions are
\* encoded when it ends, the unresolvable attachments are resolved after that.
StageAfter(stage) ==
    CASE stage = "populated" -> "stored"
      [] stage = "stored"    -> "resolved"

\* The command encoder begins a subpass: populateMTLRenderPassDescriptor fills the
\* descriptor of its Metal render pass.  The render encoder made from it is in place
\* when the subpass ends, or is not.
RecordPopulateMTLRenderPassDescriptor ==
    /\ CanCall
    /\ \E s \in Subpasses, attachments \in [Attachments -> RecordViews], isRenderingEntireAttachment \in BOOLEAN, hasRenderEncoder \in BOOLEAN, junk \in NoJunks :
          /\ FormatsFitRoles(_subpasses[s], attachments)
          /\ ret' = [op |-> "record", stage |-> "populated", subpass |-> s,
                     attachments |-> attachments,
                     isRenderingEntireAttachment |-> isRenderingEntireAttachment,
                     hasRenderEncoder |-> hasRenderEncoder,
                     mtlRPDesc |-> PopulateMTLRenderPassDescriptor(_subpasses[s], 0,
                                       attachments, isRenderingEntireAttachment, FALSE, junk),
                     storeOverride |-> FALSE,
                     storeActions |-> <<>>,
                     resolves |-> <<>>]
    /\ UNCHANGED <<pc, device, _subpasses, _attachments, createInfo, _configurationResult>>

\* The subpass ends: encodeStoreActions issues its commands on the render encoder.
RecordEncodeStoreActions ==
    /\ pc = "done"
    /\ ret.op = "record"
    /\ ret.stage = "populated"
    /\ \E storeOverride \in BOOLEAN, junk \in NoJunks :
          ret' = [ret EXCEPT
                    !.stage = StageAfter(ret.stage),
                    !.storeOverride = storeOverride,
                    !.storeActions =
                        EncodeStoreActions(_subpasses[ret.subpass], ret.hasRenderEncoder,
                                           ret.isRenderingEntireAttachment, ret.attachments,
                                           storeOverride, junk)]
    /\ UNCHANGED <<pc, device, _subpasses, _attachments, createInfo, _configurationResult>>

\* The render encoding has ended: resolveUnresolvableAttachments dispatches its
\* compute resolves.
RecordResolveUnresolvableAttachments ==
    /\ pc = "done"
    /\ ret.op = "record"
    /\ ret.stage = "stored"
    /\ ret' = [ret EXCEPT
                 !.stage = StageAfter(ret.stage),
                 !.resolves = ResolveUnresolvableAttachments(_subpasses[ret.subpass],
                                                             ret.attachments)]
    /\ UNCHANGED <<pc, device, _subpasses, _attachments, createInfo, _configurationResult>>

\* The VkSubpassDescription2s of the render passes recorded: a color attachment with
\* its resolve attachment, in slot 0 or in slot 1 after an unused slot; two slots of
\* which one has only its resolve and the other only its color attachment; two
\* color attachments; a color and a depth/stencil attachment; a depth/stencil attachment whose depth is
\* resolved; or nothing but an unused color attachment.
RecordDescriptions2 ==
    { [viewMask |-> 0,
       inputAttachments |-> <<>>,
       colorAttachments |-> d.colorAttachments,
       resolveAttachments |-> d.resolveAttachments,
       depthStencilAttachment |-> d.depthStencilAttachment,
       depthStencilResolveAttachment |-> d.depthStencilResolveAttachment,
       depthResolveMode |-> "VK_RESOLVE_MODE_SAMPLE_ZERO_BIT",
       stencilResolveMode |-> "VK_RESOLVE_MODE_NONE"]
      : d \in { [colorAttachments |-> <<0>>, resolveAttachments |-> <<1>>,
                 depthStencilAttachment |-> VK_ATTACHMENT_UNUSED,
                 depthStencilResolveAttachment |-> VK_ATTACHMENT_UNUSED],
                [colorAttachments |-> <<VK_ATTACHMENT_UNUSED, 0>>,
                 resolveAttachments |-> <<VK_ATTACHMENT_UNUSED, 1>>,
                 depthStencilAttachment |-> VK_ATTACHMENT_UNUSED,
                 depthStencilResolveAttachment |-> VK_ATTACHMENT_UNUSED],
                [colorAttachments |-> <<VK_ATTACHMENT_UNUSED, 0>>,
                 resolveAttachments |-> <<1, VK_ATTACHMENT_UNUSED>>,
                 depthStencilAttachment |-> VK_ATTACHMENT_UNUSED,
                 depthStencilResolveAttachment |-> VK_ATTACHMENT_UNUSED],
                [colorAttachments |-> <<1, 0>>, resolveAttachments |-> <<>>,
                 depthStencilAttachment |-> VK_ATTACHMENT_UNUSED,
                 depthStencilResolveAttachment |-> VK_ATTACHMENT_UNUSED],
                [colorAttachments |-> <<0>>, resolveAttachments |-> <<>>,
                 depthStencilAttachment |-> 1,
                 depthStencilResolveAttachment |-> VK_ATTACHMENT_UNUSED],
                [colorAttachments |-> <<>>, resolveAttachments |-> <<>>,
                 depthStencilAttachment |-> 0,
                 depthStencilResolveAttachment |-> 1],
                [colorAttachments |-> <<VK_ATTACHMENT_UNUSED>>, resolveAttachments |-> <<>>,
                 depthStencilAttachment |-> VK_ATTACHMENT_UNUSED,
                 depthStencilResolveAttachment |-> VK_ATTACHMENT_UNUSED] } }

\* Their VkAttachmentDescriptions: color or depth cleared and stored with the
\* stencil loaded and discarded, or the other way round.
RecordAttachmentInfos ==
    { [format |-> AnyUseFormat, samples |-> "VK_SAMPLE_COUNT_4_BIT",
       loadOp |-> "VK_ATTACHMENT_LOAD_OP_CLEAR", stencilLoadOp |-> "VK_ATTACHMENT_LOAD_OP_LOAD",
       storeOp |-> "VK_ATTACHMENT_STORE_OP_STORE",
       stencilStoreOp |-> "VK_ATTACHMENT_STORE_OP_DONT_CARE"],
      [format |-> AnyUseFormat, samples |-> "VK_SAMPLE_COUNT_1_BIT",
       loadOp |-> "VK_ATTACHMENT_LOAD_OP_LOAD", stencilLoadOp |-> "VK_ATTACHMENT_LOAD_OP_CLEAR",
       storeOp |-> "VK_ATTACHMENT_STORE_OP_DONT_CARE",
       stencilStoreOp |-> "VK_ATTACHMENT_STORE_OP_STORE"] }

\* A render pass without multiview of at most StoreSubpasses subpasses and
\* BuildAttachments attachments is created from a VkRenderPassCreateInfo2, on any
\* device.
InitRecord ==
    /\ pc = "subpasses"
    /\ createInfo \in [sType           : {"VkRenderPassCreateInfo2"},
                       subpassCount    : 1 .. StoreSubpasses,
                       attachmentCount : {BuildAttachments},
                       multiview       : {FALSE}]
    /\ _subpasses = <<>>
    /\ _attachments = <<>>
    /\ _configurationResult = "VK_SUCCESS"
    /\ device \in [canUseInstancingForMultiview : {FALSE},
                   combinedStoreResolveAction   : BOOLEAN,
                   deferredStoreActions         : BOOLEAN,
                   renderWithoutAttachments     : BOOLEAN]
    /\ ret = NoCall

NextRecord ==
    \/ AddSubpass2Of(RecordDescriptions2)
    \/ AddAttachmentDescribed(RecordAttachmentInfos)
    \/ CallPopulateClearAttachments
    \/ RecordPopulateMTLRenderPassDescriptor
    \/ RecordEncodeStoreActions
    \/ RecordResolveUnresolvableAttachments
    \/ Return

SpecRecord == InitRecord /\ [][NextRecord]_vars

-----------------------------------------------------------------------------
(* The store action over the subpasses of a render pass *)

\* The VkSubpassDescriptions of the render passes asked for their store actions: a
\* subpass uses the attachment as color attachment or uses no attachment.
DiscardDescriptions == {NoRefs, [NoRefs EXCEPT !.colorAttachments = <<0>>]}

\* A render pass of at most MaxSubpasses subpasses, multiview or not, with one
\* attachment is created from a VkRenderPassCreateInfo.
InitDiscard ==
    /\ pc = "subpasses"
    /\ createInfo \in [sType           : {"VkRenderPassCreateInfo"},
                       subpassCount    : 1 .. MaxSubpasses,
                       attachmentCount : {MaxAttachments},
                       multiview       : BOOLEAN]
    /\ _subpasses = <<>>
    /\ _attachments = <<>>
    /\ _configurationResult = "VK_SUCCESS"
    /\ device = [canUseInstancingForMultiview |-> FALSE,
                 combinedStoreResolveAction   |-> FALSE]
    /\ ret = NoCall

NextDiscard ==
    \/ AddSubpassOf(DiscardDescriptions)
    \/ AddAttachment({"VK_ATTACHMENT_LOAD_OP_LOAD"}, StoreOps)
    \/ CallGetMTLStoreAction
    \/ Return

SpecDiscard == InitDiscard /\ [][NextDiscard]_vars

-----------------------------------------------------------------------------
(* Properties of the view mask queries, checked under SpecViews *)

\* The views of a mask: the indices of its set bits.
Views(m) == {i \in 0 .. MaxViews + 1 : (m \div 2^i) % 2 = 1}

\* The mask of a set of views.
RECURSIVE MaskOf(_)
MaskOf(S) == IF S = {} THEN 0 ELSE LET i == CHOOSE x \in S : TRUE IN 2^i + MaskOf(S \ {i})

Lowest(S) == CHOOSE x \in S : \A y \in S : x <= y

\* The n-th element of S in ascending order, counted from 0.
RECURSIVE Nth(_, _)
Nth(S, n) == IF n = 0 THEN Lowest(S) ELSE Nth(S \ {Lowest(S)}, n - 1)

\* The lowest views of the maximal runs of contiguous views of a mask.
RunStarts(m) == {i \in Views(m) : (i - 1) \notin Views(m)}

\* The views of the maximal run that begins at view i.
RunAt(m, i) == {j \in Views(m) : j >= i /\ \A k \in i .. j : k \in Views(m)}

TheSubpass == _subpasses[ret.subpass]

IsViewCall ==
    ret.op \in {"getMultiviewMetalPassCount", "getFirstViewIndexInMetalPass",
                "getViewCountInMetalPass", "getViewMaskGroupForMetalPass",
                "getViewCountUpToMetalPass"}

\* C1: for a non-zero view mask, in either mode, the group that
\* getViewMaskGroupForMetalPass returns for a pass shares no view with the group
\* of any other pass, and the groups of all passes together are the view mask.
C1_GroupsPartitionViewMask ==
    (ret.op = "getViewMaskGroupForMetalPass" /\ TheSubpass.viewMask # 0) =>
        LET sp == TheSubpass
            n  == GetMultiviewMetalPassCount(sp)
            others == (0 .. n - 1) \ {ret.passIdx}
        IN  /\ \A q \in others :
                  Views(ret.value) \cap Views(GetViewMaskGroupForMetalPass(sp, q)) = {}
            /\ Views(ret.value)
                  \cup UNION {Views(GetViewMaskGroupForMetalPass(sp, q)) : q \in others}
               = Views(sp.viewMask)

\* C2: without instancing the pass count is the number of views of the mask, pass i
\* begins at the i-th view of the mask in ascending order, renders one view, and its
\* group is that one view.
C2_UnrolledPassIsNthView ==
    (IsViewCall /\ ~CanUseInstancingForMultiview) =>
        LET sp == TheSubpass
            V  == Views(sp.viewMask)
        IN  /\ ret.op = "getMultiviewMetalPassCount" => ret.value = Cardinality(V)
            /\ (ret.op = "getFirstViewIndexInMetalPass" /\ V # {})
                  => ret.value = Nth(V, ret.passIdx)
            /\ (ret.op = "getViewCountInMetalPass" /\ V # {}) => ret.value = 1
            /\ (ret.op = "getViewMaskGroupForMetalPass" /\ V # {})
                  => ret.value = 2^Nth(V, ret.passIdx)

\* C3: with instancing the pass count is the number of maximal runs of contiguous
\* views of the mask, and pass p is the p-th run in ascending order: it begins at
\* the run's lowest view, renders as many views as the run has, and its group is
\* the run.
C3_InstancedPassIsNthRun ==
    (IsViewCall /\ CanUseInstancingForMultiview) =>
        LET sp == TheSubpass
            m  == sp.viewMask
            R  == RunStarts(m)
        IN  /\ ret.op = "getMultiviewMetalPassCount" => ret.value = Cardinality(R)
            /\ (ret.op = "getFirstViewIndexInMetalPass" /\ m # 0)
                  => ret.value = Nth(R, ret.passIdx)
            /\ (ret.op = "getViewCountInMetalPass" /\ m # 0)
                  => ret.value = Cardinality(RunAt(m, Nth(R, ret.passIdx)))
            /\ (ret.op = "getViewMaskGroupForMetalPass" /\ m # 0)
                  => ret.value = MaskOf(RunAt(m, Nth(R, ret.passIdx)))

\* 0b1011 with instancing: the group of pass 1 is view 3 alone.
C3_Witness ==
    /\ ret.op = "getViewMaskGroupForMetalPass"
    /\ CanUseInstancingForMultiview
    /\ TheSubpass.viewMask = 11
    /\ ret.passIdx = 1
    /\ ret.value = 8

RECURSIVE SumViewCounts(_, _)
SumViewCounts(sp, p) ==
    GetViewCountInMetalPass(sp, p) + (IF p = 0 THEN 0 ELSE SumViewCounts(sp, p - 1))

\* C4: for a non-zero view mask, in either mode, getViewCountUpToMetalPass(p) is the
\* sum of getViewCountInMetalPass over the passes 0 .. p, and for the last pass it is
\* the number of views of the mask.
C4_ViewCountUpToIsSum ==
    (ret.op = "getViewCountUpToMetalPass" /\ TheSubpass.viewMask # 0) =>
        LET sp == TheSubpass
        IN  /\ ret.value = SumViewCounts(sp, ret.passIdx)
            /\ ret.passIdx = GetMultiviewMetalPassCount(sp) - 1
                  => ret.value = Cardinality(Views(sp.viewMask))

\* 0b1011 with instancing: two views up to pass 0, three up to pass 1.
C4_Witness ==
    /\ ret.op = "getViewCountUpToMetalPass"
    /\ CanUseInstancingForMultiview
    /\ TheSubpass.viewMask = 11
    /\ ret.passIdx = 1
    /\ ret.value = 3

-----------------------------------------------------------------------------
(* Properties of first use, last use and clearing, checked under Spec *)

Range(list) == {list[i] : i \in 1 .. Len(list)}

\* Subpass sp uses the attachment with index idx: as input, color, resolve,
\* depth/stencil or depth/stencil resolve attachment.
Uses(sp, idx) ==
    idx \in Range(sp.inputAttachments) \cup Range(sp.colorAttachments)
            \cup Range(sp.resolveAttachments)
            \cup {sp.depthStencilAttachment, sp.depthStencilResolveAttachment}

\* The subpasses that use attachment a (positions in _subpasses and _attachments).
Users(a) == {s \in Subpasses : Uses(_subpasses[s], a - 1)}

Highest(S) == CHOOSE x \in S : \A y \in S : x >= y

\* Every subpass up to s uses attachment a.
AllUseUpTo(a, s) == \A t \in 1 .. s : t \in Users(a)

\* The views subpass s is the first to render to attachment a: none if it does not
\* use the attachment.
ViewsIntroduced(a, s) ==
    IF s \in Users(a)
    THEN Views(_subpasses[s].viewMask)
            \ UNION {Views(_subpasses[t].viewMask) : t \in {u \in Users(a) : u < s}}
    ELSE {}

\* The views subpass s is the last to render to attachment a.
ViewsRetired(a, s) ==
    IF s \in Users(a)
    THEN Views(_subpasses[s].viewMask)
            \ UNION {Views(_subpasses[t].viewMask) : t \in {u \in Users(a) : u > s}}
    ELSE {}

TheAttachment == _attachments[ret.att]

TheLoadOp ==
    IF ret.isStencil THEN TheAttachment.info.stencilLoadOp ELSE TheAttachment.info.loadOp

\* C5: in a render pass without multiview, an attachment that some subpass uses has
\* as first use the lowest and as last use the highest subpass that uses it;
\* isFirstUseOfAttachment holds of that lowest subpass only and
\* isLastUseOfAttachment of that highest subpass only.
C5_FirstAndLastUse ==
    (pc = "done" /\ ~createInfo.multiview) =>
        /\ \A a \in Attachments : Users(a) # {} =>
              /\ _attachments[a].firstUseSubpassIdx = Lowest(Users(a)) - 1
              /\ _attachments[a].lastUseSubpassIdx = Highest(Users(a)) - 1
        /\ (ret.op = "isFirstUseOfAttachment" /\ Users(ret.att) # {})
              => ret.value = (ret.subpass = Lowest(Users(ret.att)))
        /\ (ret.op = "isLastUseOfAttachment" /\ Users(ret.att) # {})
              => ret.value = (ret.subpass = Highest(Users(ret.att)))

\* Subpasses 0 and 2 use the attachment, subpass 1 does not and is not its first use.
C5_Witness ==
    /\ pc = "done"
    /\ ~createInfo.multiview
    /\ ret.op = "isFirstUseOfAttachment"
    /\ Len(_subpasses) = 3
    /\ Users(ret.att) = {1, 3}
    /\ ret.subpass = 2
    /\ ret.value = FALSE

ReadWithinVector ==
    TheSubpass.subpassIndex <
        Len(IF ret.op = "isLastUseOfAttachment" THEN TheAttachment.lastUseViewMasks
            ELSE TheAttachment.firstUseViewMasks)

\* C9: with multiview, isFirstUseOfAttachment holds of a subpass exactly when the
\* views it is the first to render to the attachment are all the views of its mask,
\* and isLastUseOfAttachment exactly when the views it is the last to render are;
\* stated of the calls that read an entry the vector holds.
C9_FirstAndLastUseMultiview ==
    (createInfo.multiview /\ ret.op \in {"isFirstUseOfAttachment", "isLastUseOfAttachment"}
        /\ ReadWithinVector) =>
        /\ ret.op = "isFirstUseOfAttachment"
              => ret.value = (ViewsIntroduced(ret.att, ret.subpass)
                                = Views(TheSubpass.viewMask))
        /\ ret.op = "isLastUseOfAttachment"
              => ret.value = (ViewsRetired(ret.att, ret.subpass)
                                = Views(TheSubpass.viewMask))

-----------------------------------------------------------------------------
(* Properties of the store action, checked under SpecStore *)

\* The resolve rule: a resolve attachment whose format can resolve, on a device
\* without the combined store-and-resolve action.
PureResolve ==
    ret.hasResolveAttachment /\ ret.canResolveFormat /\ ~device.combinedStoreResolveAction

TheStoreOp ==
    IF ret.isStencil THEN TheAttachment.info.stencilStoreOp ELSE TheAttachment.info.storeOp

\* C7 as claimed, its last part: getMTLStoreAction for a subpass that is not the
\* last use of the attachment never returns DontCare.
C7_NotLastUseNeverDontCare ==
    (ret.op = "getMTLStoreAction" /\ ~ret.isLastUse) =>
        ret.value # "MTLStoreActionDontCare"

\* C7: for a subpass that is not the last use of the attachment, getMTLStoreAction
\* returns DontCare only for a memoryless attachment without resolve attachment;
\* for an attachment that is not memoryless it returns MultisampleResolve under the
\* resolve rule and Store or StoreAndMultisampleResolve otherwise, whatever the
\* declared store-op.
C7_NotLastUsePersistsUnlessMemoryless ==
    (ret.op = "getMTLStoreAction" /\ ~ret.isLastUse) =>
        /\ ret.value = "MTLStoreActionDontCare"
              => (ret.isMemorylessAttachment /\ ~ret.hasResolveAttachment)
        /\ (~ret.isMemorylessAttachment /\ PureResolve)
              => ret.value = "MTLStoreActionMultisampleResolve"
        /\ (~ret.isMemorylessAttachment /\ ~PureResolve)
              => ret.value \in {"MTLStoreActionStore",
                                "MTLStoreActionStoreAndMultisampleResolve"}

\* The whole attachment is rendered, nothing overrides, the declared store-op is
\* DontCare, and the subpass is not the last use: the action is Store.
C7_Witness ==
    /\ ret.op = "getMTLStoreAction"
    /\ ~ret.isLastUse
    /\ ret.subpass \in Users(ret.att)
    /\ ret.isRenderingEntireAttachment
    /\ ~ret.storeOverride
    /\ ~ret.isMemorylessAttachment
    /\ ~ret.hasResolveAttachment
    /\ TheStoreOp = "VK_ATTACHMENT_STORE_OP_DONT_CARE"
    /\ ret.value = "MTLStoreActionStore"

\* C8: for a memoryless attachment getMTLStoreAction returns DontCare when there is
\* no resolve attachment and MultisampleResolve when there is one, whatever the
\* declared store-op, the override, the render area and the use of the subpass.
C8_MemorylessNeverStores ==
    (ret.op = "getMTLStoreAction" /\ ret.isMemorylessAttachment) =>
        ret.value = IF ret.hasResolveAttachment
                    THEN "MTLStoreActionMultisampleResolve"
                    ELSE "MTLStoreActionDontCare"

\* A memoryless attachment declared with store-op Store, the store forced by the
\* override at a subpass that is not its last use: the action is still DontCare.
C8_Witness ==
    /\ ret.op = "getMTLStoreAction"
    /\ ret.isMemorylessAttachment
    /\ ~ret.hasResolveAttachment
    /\ ret.storeOverride
    /\ ~ret.isLastUse
    /\ TheStoreOp = "VK_ATTACHMENT_STORE_OP_STORE"
    /\ ret.value = "MTLStoreActionDontCare"

\* C13: with a resolve attachment whose format can resolve, on a device without the
\* combined store-and-resolve action, getMTLStoreAction returns MultisampleResolve,
\* whether or not the attachment is memoryless, the store is overridden, the whole
\* attachment is rendered or the subpass is the last use, and whatever the declared
\* store-op.
C13_PureResolveFirst ==
    (ret.op = "getMTLStoreAction" /\ PureResolve) =>
        ret.value = "MTLStoreActionMultisampleResolve"

\* An attachment that is not memoryless, declared with store-op Store, the store
\* forced by the override: under the resolve rule the action is MultisampleResolve.
C13_Witness ==
    /\ ret.op = "getMTLStoreAction"
    /\ PureResolve
    /\ ~ret.isMemorylessAttachment
    /\ ret.storeOverride
    /\ ~ret.isRenderingEntireAttachment
    /\ ~ret.isLastUse
    /\ TheStoreOp = "VK_ATTACHMENT_STORE_OP_STORE"
    /\ ret.value = "MTLStoreActionMultisampleResolve"

\* The store action of the call with the attachment declared with store-op o for
\* both of its components.
StoreActionWithStoreOp(o, junk) ==
    GetMTLStoreAction([TheAttachment EXCEPT !.info.storeOp = o, !.info.stencilStoreOp = o],
                      TheSubpass, ret.isRenderingEntireAttachment,
                      ret.isMemorylessAttachment, ret.hasResolveAttachment,
                      ret.canResolveFormat, ret.isStencil, ret.storeOverride, junk)

\* C14: when neither the resolve rule nor the memoryless rule applies and the store
\* is overridden, or a part of the attachment is rendered, or the subpass is not the
\* last use, getMTLStoreAction returns StoreAndMultisampleResolve with a resolve
\* attachment whose format can resolve and Store otherwise, and would return the
\* same with any other declared store-op.
C14_MustPersist ==
    (/\ ret.op = "getMTLStoreAction"
     /\ ~PureResolve
     /\ ~ret.isMemorylessAttachment
     /\ (ret.storeOverride \/ ~ret.isRenderingEntireAttachment \/ ~ret.isLastUse)) =>
        /\ ret.value = IF ret.hasResolveAttachment /\ ret.canResolveFormat
                       THEN "MTLStoreActionStoreAndMultisampleResolve"
                       ELSE "MTLStoreActionStore"
        /\ \A o \in StoreOps :
              \A junk \in JunkMasks :
                  IsLastUseOfAttachment(TheAttachment, TheSubpass, junk) = ret.isLastUse
                      => StoreActionWithStoreOp(o, junk) = ret.value

\* The last use of an attachment declared with store-op DontCare, the whole of it
\* rendered, the store forced by the override alone: the action is Store.
C14_Witness ==
    /\ ret.op = "getMTLStoreAction"
    /\ ~PureResolve
    /\ ~ret.isMemorylessAttachment
    /\ ret.storeOverride
    /\ ret.isRenderingEntireAttachment
    /\ ret.isLastUse
    /\ ~ret.hasResolveAttachment
    /\ TheStoreOp = "VK_ATTACHMENT_STORE_OP_DONT_CARE"
    /\ ret.value = "MTLStoreActionStore"

-----------------------------------------------------------------------------
(* Properties of the load action, checked under SpecLoad *)

\* The load action that honors a declared load-op.
Honored(loadOp) ==
    CASE loadOp = "VK_ATTACHMENT_LOAD_OP_LOAD"  -> "MTLLoadActionLoad"
      [] loadOp = "VK_ATTACHMENT_LOAD_OP_CLEAR" -> "MTLLoadActionClear"
      [] loadOp = "VK_ATTACHMENT_LOAD_OP_DONT_CARE" -> "MTLLoadActionDontCare"

\* The whole attachment is rendered at its first use and nothing overrides the load.
MayHonorLoadOp ==
    ret.isRenderingEntireAttachment /\ ret.isFirstUse /\ ~ret.loadOverride

\* C11: for an attachment that is not memoryless the load action written is the one
\* of the declared load-op (of the stencil load-op for the stencil component) when
\* the whole attachment is rendered, the subpass is the first use and the load is
\* not overridden, and Load in every other case; the value returned is true exactly
\* when the load action written is Clear.
C11_LoadOpHonoredAtWholeFirstUse ==
    ret.op = "populateMTLRenderPassAttachmentDescriptor" =>
        /\ ~ret.attachment.isMemoryless =>
              ret.mtlAttDesc.loadAction =
                  IF MayHonorLoadOp THEN Honored(TheLoadOp) ELSE "MTLLoadActionLoad"
        /\ ret.value = (ret.mtlAttDesc.loadAction = "MTLLoadActionClear")

\* The first use of an attachment declared with load-op Clear, a part of it
\* rendered: the load action is Load and the value returned is false.
C11_Witness ==
    /\ ret.op = "populateMTLRenderPassAttachmentDescriptor"
    /\ ~ret.attachment.isMemoryless
    /\ ret.isFirstUse
    /\ ret.subpass \in Users(ret.att)
    /\ ~ret.loadOverride
    /\ ~ret.isRenderingEntireAttachment
    /\ TheLoadOp = "VK_ATTACHMENT_LOAD_OP_CLEAR"
    /\ ret.mtlAttDesc.loadAction = "MTLLoadActionLoad"
    /\ ret.value = FALSE

\* C12: for a memoryless attachment the load action written is never Load: it is
\* Clear when the declared load-op is Clear, the whole attachment is rendered, the
\* subpass is the first use and the load is not overridden, and DontCare in every
\* other case.
C12_MemorylessNeverLoads ==
    (ret.op = "populateMTLRenderPassAttachmentDescriptor" /\ ret.attachment.isMemoryless) =>
        /\ ret.mtlAttDesc.loadAction # "MTLLoadActionLoad"
        /\ ret.mtlAttDesc.loadAction =
              IF MayHonorLoadOp /\ TheLoadOp = "VK_ATTACHMENT_LOAD_OP_CLEAR"
              THEN "MTLLoadActionClear" ELSE "MTLLoadActionDontCare"

\* A memoryless attachment declared with load-op Load, the whole of it rendered at
\* its first use: the load action is DontCare.
C12_Witness ==
    /\ ret.op = "populateMTLRenderPassAttachmentDescriptor"
    /\ ret.attachment.isMemoryless
    /\ MayHonorLoadOp
    /\ ret.subpass \in Users(ret.att)
    /\ TheLoadOp = "VK_ATTACHMENT_LOAD_OP_LOAD"
    /\ ret.mtlAttDesc.loadAction = "MTLLoadActionDontCare"

-----------------------------------------------------------------------------
(* Properties of the required format capabilities, checked under SpecCaps *)

\* The roles in which subpass sp references attachment index idx.
Roles(sp, idx) ==
    {r \in {"input", "color", "resolve", "depthStencil", "depthStencilResolve"} :
        \/ r = "input" /\ idx \in Range(sp.inputAttachments)
        \/ r = "color" /\ idx \in Range(sp.colorAttachments)
        \/ r = "resolve" /\ idx \in Range(sp.resolveAttachments)
        \/ r = "depthStencil" /\ idx = sp.depthStencilAttachment
        \/ r = "depthStencilResolve" /\ idx = sp.depthStencilResolveAttachment}

\* The capability flag of a role.
RoleCap(r) ==
    CASE r = "input" -> "Read"
      [] r = "color" -> "ColorAtt"
      [] r = "depthStencil" -> "DSAtt"
      [] r \in {"resolve", "depthStencilResolve"} -> "Resolve"

\* C15: getRequiredFormatCapabilitiesForAttachmentAt(i) returns the capability flags
\* of the roles in which the subpass references attachment i, no more and no less:
\* none when it references it in no role, ColorAtt and Read when it references it as
\* color and as input attachment.
C15_CapsAreUnionOverRoles ==
    ret.op = "getRequiredFormatCapabilitiesForAttachmentAt" =>
        LET roles == Roles(TheSubpass, ret.rpAttIdx)
        IN  /\ ret.value = {RoleCap(r) : r \in roles}
            /\ roles = {} => ret.value = {}
            /\ {"input", "color"} \subseteq roles => {"Read", "ColorAtt"} \subseteq ret.value

\* Attachment 0 is the second color attachment and the first input attachment of
\* the subpass and nothing else: ColorAtt and Read are required of it.
C15_Witness ==
    /\ ret.op = "getRequiredFormatCapabilitiesForAttachmentAt"
    /\ ret.rpAttIdx = 0
    /\ TheSubpass.colorAttachments = <<VK_ATTACHMENT_UNUSED, 0>>
    /\ TheSubpass.inputAttachments = <<0>>
    /\ Roles(TheSubpass, 0) = {"input", "color"}
    /\ ret.value = {"Read", "ColorAtt"}

-----------------------------------------------------------------------------
(* Properties of validation and construction, checked under SpecBuild *)

\* The capabilities subpass s requires of attachment a (positions in _subpasses and
\* _attachments): those of the roles in which it references it.
RequiredOf(s, a) == {RoleCap(r) : r \in Roles(_subpasses[s], a - 1)}

\* Attachment a does not pass validation: its format is neither supported nor
\* substitutable, or a subpass that references it requires a capability other than
\* the resolve capability that its format lacks.
FailsValidation(a) ==
    LET format == _attachments[a].info.format
    IN  \/ ~format.supported
        \/ \E s \in Users(a) : (RequiredOf(s, a) \ {"Resolve"}) \ format.caps # {}

\* C16: the render pass holds a configuration error exactly when one of the
\* attachments validated so far does not pass: a subpass that does not reference an
\* attachment requires nothing of it, and the resolve capability is never missed.
C16_ErrorIffValidationFails ==
    (_configurationResult # "VK_SUCCESS") = (\E a \in Attachments : FailsValidation(a))

\* An attachment of a supported format without any capability, referenced as a
\* resolve attachment and by one subpass only: no error is recorded.
C16_Witness ==
    /\ pc = "done"
    /\ Len(_attachments) = 1
    /\ Len(_subpasses) = 2
    /\ Cardinality(Users(1)) = 1
    /\ \A s \in Users(1) : RequiredOf(s, 1) = {"Resolve"}
    /\ _attachments[1].info.format = [supported |-> TRUE, caps |-> {}]
    /\ _configurationResult = "VK_SUCCESS"

\* The first and last use of attachment a are those validateFormat computes from
\* the subpasses that use it.
UseComputed(a) ==
    IF Users(a) = {}
    THEN /\ _attachments[a].firstUseSubpassIdx = kMVKUndefinedLargeUInt32
         /\ _attachments[a].lastUseSubpassIdx = 0
    ELSE /\ _attachments[a].firstUseSubpassIdx = Lowest(Users(a)) - 1
         /\ _attachments[a].lastUseSubpassIdx = Highest(Users(a)) - 1

\* C17: the construction of a render pass comes to its end; at its end the render
\* pass holds subpassCount subpasses and attachmentCount attachments, each with its
\* first and last use computed, whether or not an error was recorded; and no step
\* of the construction takes a recorded error away.
C17_ConstructionCompletes ==
    /\ [](pc = "done" =>
              /\ Len(_subpasses) = createInfo.subpassCount
              /\ Len(_attachments) = createInfo.attachmentCount
              /\ \A a \in Attachments : UseComputed(a))
    /\ [][_configurationResult # "VK_SUCCESS" => _configurationResult' # "VK_SUCCESS"]_vars
    /\ <>(pc = "done")

\* The first attachment failed validation, the second passed, both were built with
\* their use computed, and the error is still there.
C17_Witness ==
    /\ pc = "done"
    /\ Len(_attachments) = 2
    /\ FailsValidation(1)
    /\ ~FailsValidation(2)
    /\ Users(1) # {} /\ Users(2) # {}
    /\ UseComputed(1) /\ UseComputed(2)
    /\ _configurationResult = "VK_ERROR_FORMAT_NOT_SUPPORTED"

\* C18: in either constructor the k-th subpass built holds subpass index k and the
\* k-th attachment built holds attachment index k (counted from 0), no subpass is
\* built once an attachment has been, and an attachment is built, and validated,
\* only when the render pass holds all subpassCount subpasses.
C18_SubpassesBeforeAttachments ==
    /\ [](/\ \A k \in Subpasses : _subpasses[k].subpassIndex = k - 1
          /\ \A k \in Attachments : _attachments[k].attachmentIndex = k - 1
          /\ _attachments # <<>> => Len(_subpasses) = createInfo.subpassCount)
    /\ [][/\ _subpasses' # _subpasses => _attachments = <<>> /\ _attachments' = <<>>
          /\ _attachments' # _attachments =>
                /\ Len(_subpasses) = createInfo.subpassCount
                /\ _subpasses' = _subpasses]_vars

\* A render pass created from a VkRenderPassCreateInfo2 with two subpasses and two
\* attachments, the second attachment used by the second subpass, which its
\* validation has seen.
C18_Witness ==
    /\ pc = "done"
    /\ createInfo.sType = "VkRenderPassCreateInfo2"
    /\ Len(_subpasses) = 2 /\ Len(_attachments) = 2
    /\ _subpasses[2].subpassIndex = 1
    /\ _attachments[2].attachmentIndex = 1
    /\ Users(2) = {2}
    /\ _attachments[2].firstUseSubpassIdx = 1

-----------------------------------------------------------------------------
(* The first and last use after construction, checked under Spec *)

\* C20: an attachment that some subpass references has its first-use subpass index
\* at or below its last-use subpass index and both below the subpass count; an
\* attachment that no subpass references has its first use at the undefined value
\* and its last use at 0.
C20_FirstUseNotAfterLastUse ==
    pc = "done" =>
        \A a \in Attachments :
            LET first == _attachments[a].firstUseSubpassIdx
                last  == _attachments[a].lastUseSubpassIdx
            IN  IF Users(a) # {}
                THEN /\ 0 <= first /\ first <= last
                     /\ last < createInfo.subpassCount
                ELSE /\ first = kMVKUndefinedLargeUInt32
                     /\ last = 0

\* Of three subpasses none references the attachment: its first use is left at the
\* undefined value.
C20_Witness ==
    /\ pc = "done"
    /\ Len(_subpasses) = 3
    /\ Len(_attachments) = 1
    /\ Users(1) = {}
    /\ _attachments[1].firstUseSubpassIdx = kMVKUndefinedLargeUInt32
    /\ _attachments[1].lastUseSubpassIdx = 0

-----------------------------------------------------------------------------
(* Properties of the queries, checked under SpecQueries *)

\* The results the fields of the render pass, its subpasses and its attachments, as
\* they are now, allow for the call r with its arguments: one result, or one for each
\* outcome of a read past the end of a view mask vector where the call makes one.
ResultsOf(r) ==
    LET sp  == _subpasses[r.subpass]
    IN  CASE r.op = "getMultiviewMetalPassCount" -> {GetMultiviewMetalPassCount(sp)}
          [] r.op = "getFirstViewIndexInMetalPass" ->
                {GetFirstViewIndexInMetalPass(sp, r.passIdx)}
          [] r.op = "getViewCountInMetalPass" -> {GetViewCountInMetalPass(sp, r.passIdx)}
          [] r.op = "getViewMaskGroupForMetalPass" ->
                {GetViewMaskGroupForMetalPass(sp, r.passIdx)}
          [] r.op = "getViewCountUpToMetalPass" -> {GetViewCountUpToMetalPass(sp, r.passIdx)}
          [] r.op = "getSampleCount" -> {GetSampleCount(sp)}
          [] r.op = "getRequiredFormatCapabilitiesForAttachmentAt" ->
                {GetRequiredFormatCapabilitiesForAttachmentAt(sp, r.rpAttIdx)}
          [] r.op = "isFirstUseOfAttachment" ->
                {IsFirstUseOfAttachment(_attachments[r.att], sp, j) : j \in JunkMasks}
          [] r.op = "isLastUseOfAttachment" ->
                {IsLastUseOfAttachment(_attachments[r.att], sp, j) : j \in JunkMasks}
          [] r.op = "shouldClearAttachment" ->
                {ShouldClearAttachment(_attachments[r.att], sp, r.isStencil, j)
                    : j \in JunkMasks}
          [] r.op = "getMTLStoreAction" ->
                {GetMTLStoreAction(_attachments[r.att], sp, r.isRenderingEntireAttachment,
                                   r.isMemorylessAttachment, r.hasResolveAttachment,
                                   r.canResolveFormat, r.isStencil, r.storeOverride, j)
                    : j \in JunkMasks}
          [] r.op = "populateMTLRenderPassAttachmentDescriptor" ->
                {PopulateMTLRenderPassAttachmentDescriptor(
                     _attachments[r.att], sp, r.attachment, r.isRenderingEntireAttachment,
                     r.hasResolveAttachment, r.canResolveFormat, r.isStencil,
                     r.loadOverride, j).value
                    : j \in JunkMasks}
          [] r.op = "populateMTLRenderPassDescriptor" ->
                {PopulateMTLRenderPassDescriptor(sp, r.passIdx, r.attachments,
                     r.isRenderingEntireAttachment, r.loadOverride, j)
                    : j \in AttachmentJunks}
          [] r.op = "populateClearAttachments" ->
                {PopulateClearAttachments(sp, <<>>, r.isDepthFormat, r.isStencilFormat, j)
                    : j \in AttachmentJunks}
          [] r.op = "populateMultiviewClearRects" ->
                {PopulateMultiviewClearRects(sp, r.passIdx, <<>>, r.caIdx, r.aspectMask, j)
                    : j \in AttachmentJunks}

\* Whether the call r reads a view mask vector of attachment a past its end.
ReadsPastEnd(r) ==
    /\ r.op \in {"isFirstUseOfAttachment", "isLastUseOfAttachment", "shouldClearAttachment"}
    /\ SubpassIsMultiview(_subpasses[r.subpass])
    /\ _subpasses[r.subpass].subpassIndex >= Len(_attachments[r.att].firstUseViewMasks)

-----------------------------------------------------------------------------
(* The view masks of first and last use after construction, checked under Spec *)

\* The place, counted from 1, of the entry that validateFormat pushed for subpass s
\* in the view mask vectors of attachment a: one entry for each subpass that uses it.
EntryOf(a, s) == Cardinality({u \in Users(a) : u <= s})

\* The subpasses that use attachment a and have view v in their view mask.
UsersWithView(a, v) == {s \in Users(a) : v \in Views(_subpasses[s].viewMask)}

\* C21: in a multiview render pass the view mask vectors of an attachment hold one
\* entry for each subpass that uses it; no entry holds a view outside the view mask
\* of its subpass; and every view of a subpass that uses the attachment is in the
\* first-use entry of exactly one subpass, the lowest that uses the attachment with
\* that view, and in the last-use entry of exactly one, the highest.
C21_EachViewFirstAndLastUsedOnce ==
    (pc = "done" /\ createInfo.multiview) =>
        \A a \in Attachments :
            LET first == _attachments[a].firstUseViewMasks
                last  == _attachments[a].lastUseViewMasks
            IN  /\ Len(first) = Cardinality(Users(a))
                /\ Len(last) = Cardinality(Users(a))
                /\ \A s \in Users(a) :
                      /\ Views(first[EntryOf(a, s)]) \subseteq Views(_subpasses[s].viewMask)
                      /\ Views(last[EntryOf(a, s)]) \subseteq Views(_subpasses[s].viewMask)
                /\ \A v \in UNION {Views(_subpasses[s].viewMask) : s \in Users(a)} :
                      /\ {s \in Users(a) : v \in Views(first[EntryOf(a, s)])}
                            = {Lowest(UsersWithView(a, v))}
                      /\ {s \in Users(a) : v \in Views(last[EntryOf(a, s)])}
                            = {Highest(UsersWithView(a, v))}

\* Three subpasses of a multiview render pass use the attachment, with view masks
\* 0b01, 0b11 and 0b10: view 0 is first used at the first and last used at the
\* second, view 1 first used at the second and last used at the third.
C21_Witness ==
    /\ pc = "done"
    /\ createInfo.multiview
    /\ Len(_subpasses) = 3
    /\ Len(_attachments) = 1
    /\ Users(1) = {1, 2, 3}
    /\ _subpasses[1].viewMask = 1
    /\ _subpasses[2].viewMask = 3
    /\ _subpasses[3].viewMask = 2
    /\ _attachments[1].firstUseViewMasks = <<1, 2, 0>>
    /\ _attachments[1].lastUseViewMasks = <<0, 1, 2>>

-----------------------------------------------------------------------------
(* Properties of the recording of a subpass, checked under SpecRecord *)

\* The subpass recorded and the image view of its attachment i.
RecordedSubpass == _subpasses[ret.subpass]

ViewOf(i) == ret.attachments[i + 1]

\* The resolve attachment of color slot caIdx, VK_ATTACHMENT_UNUSED without one.
ResolveOfSlot(sp, caIdx) ==
    IF caIdx < Len(sp.resolveAttachments) THEN sp.resolveAttachments[caIdx + 1]
    ELSE VK_ATTACHMENT_UNUSED

\* The store action getMTLStoreAction computes for color slot caIdx of the subpass
\* recorded (no view mask is read: the render pass is not multiview).
ColorStoreAction(caIdx, storeOverride) ==
    LET sp   == RecordedSubpass
        clr  == sp.colorAttachments[caIdx + 1]
        rslv == ResolveOfSlot(sp, caIdx)
    IN  GetMTLStoreAction(RPAttachment(clr), sp, ret.isRenderingEntireAttachment,
                          ViewOf(clr).isMemoryless, rslv # VK_ATTACHMENT_UNUSED,
                          rslv # VK_ATTACHMENT_UNUSED /\ ViewOf(rslv).canResolve,
                          FALSE, storeOverride, 0)

\* The same for the depth or the stencil component of its depth/stencil attachment.
DSStoreAction(isStencil, storeOverride) ==
    LET sp == RecordedSubpass
        ds == sp.depthStencilAttachment
    IN  GetMTLStoreAction(RPAttachment(ds), sp, ret.isRenderingEntireAttachment,
                          ViewOf(ds).isMemoryless,
                          /\ sp.depthStencilResolveAttachment # VK_ATTACHMENT_UNUSED
                          /\ (IF isStencil THEN sp.stencilResolveMode ELSE sp.depthResolveMode)
                                # "VK_RESOLVE_MODE_NONE",
                          TRUE, isStencil, storeOverride, 0)

\* The commands encodeStoreActions is to issue: one for each color slot in use, in
\* slot order, then one for the depth and one for the stencil component that the
\* format of the depth/stencil attachment has.
RECURSIVE ColorStoreCommands(_, _)
ColorStoreCommands(caIdx, storeOverride) ==
    IF caIdx >= Len(RecordedSubpass.colorAttachments) THEN <<>>
    ELSE (IF caIdx \in UsedColorAttachments(RecordedSubpass)
          THEN << [cmd |-> "setColorStoreAction",
                   storeAction |-> ColorStoreAction(caIdx, storeOverride),
                   atIndex |-> caIdx] >>
          ELSE <<>>)
         \o ColorStoreCommands(caIdx + 1, storeOverride)

DSStoreCommands(storeOverride) ==
    LET ds == RecordedSubpass.depthStencilAttachment
    IN  IF ds = VK_ATTACHMENT_UNUSED THEN <<>>
        ELSE (IF ViewOf(ds).isDepthFormat
              THEN << [cmd |-> "setDepthStoreAction",
                       storeAction |-> DSStoreAction(FALSE, storeOverride), atIndex |-> 0] >>
              ELSE <<>>)
             \o (IF ViewOf(ds).isStencilFormat
                 THEN << [cmd |-> "setStencilStoreAction",
                          storeAction |-> DSStoreAction(TRUE, storeOverride),
                          atIndex |-> 0] >>
                 ELSE <<>>)

\* The attachment slots of the descriptor that hold an attachment of the subpass.
UsedSlots(desc) ==
    {desc.colorAttachments[i] : i \in {j \in 1 .. Len(desc.colorAttachments) :
                                          desc.colorAttachments[j].texture = "attachment"}}
    \cup ({desc.depthAttachment, desc.stencilAttachment}
              \ {UnsetAttachmentDescriptor})

\* The store actions populateMTLRenderPassDescriptor is to write when they cannot be
\* set later.
StoreActionsPopulated(desc) ==
    LET sp == RecordedSubpass
        ds == sp.depthStencilAttachment
    IN  /\ \A caIdx \in UsedColorAttachments(sp) :
              desc.colorAttachments[caIdx + 1].storeAction = ColorStoreAction(caIdx, FALSE)
        /\ (ds # VK_ATTACHMENT_UNUSED /\ ViewOf(ds).isDepthFormat)
              => desc.depthAttachment.storeAction = DSStoreAction(FALSE, FALSE)
        /\ (ds # VK_ATTACHMENT_UNUSED /\ ViewOf(ds).isStencilFormat)
              => desc.stencilAttachment.storeAction = DSStoreAction(TRUE, FALSE)

\* C22: on a device with deferred store actions the descriptor is populated with the
\* store action Unknown in every slot that holds an attachment, and encodeStoreActions
\* with a render encoder in place then sets the action getMTLStoreAction computes for
\* every color slot in use and for the depth and the stencil component that the
\* format of the depth/stencil attachment has.  Without deferred store actions, or
\* without a render encoder, encodeStoreActions issues no command; without deferred
\* store actions the descriptor is populated with the computed actions.
C22_StoreActionsDeferredOrPopulated ==
    ret.op = "record" =>
        /\ \A caIdx \in UsedColorAttachments(RecordedSubpass) :
              ret.mtlRPDesc.colorAttachments[caIdx + 1].texture = "attachment"
        /\ IF device.deferredStoreActions
           THEN \A slot \in UsedSlots(ret.mtlRPDesc) :
                    slot.storeAction = "MTLStoreActionUnknown"
           ELSE /\ StoreActionsPopulated(ret.mtlRPDesc)
                /\ \A slot \in UsedSlots(ret.mtlRPDesc) :
                      slot.storeAction # "MTLStoreActionUnknown"
        /\ ret.stage # "populated" =>
              ret.storeActions =
                  IF device.deferredStoreActions /\ ret.hasRenderEncoder
                  THEN ColorStoreCommands(0, ret.storeOverride)
                           \o DSStoreCommands(ret.storeOverride)
                  ELSE <<>>
        /\ \A i \in 1 .. Len(ret.storeActions) :
              ret.storeActions[i].storeAction # "MTLStoreActionUnknown"

\* On a device with deferred store actions a subpass with a color attachment and an
\* attachment of a combined depth and stencil format has ended with its render
\* encoder in place: three store actions were set.
C22_Witness ==
    /\ ret.op = "record"
    /\ ret.stage = "stored"
    /\ device.deferredStoreActions
    /\ ret.hasRenderEncoder
    /\ RecordedSubpass.colorAttachments = <<0>>
    /\ RecordedSubpass.depthStencilAttachment = 1
    /\ ViewOf(1).isDepthFormat /\ ViewOf(1).isStencilFormat
    /\ Len(ret.storeActions) = 3
    /\ ret.mtlRPDesc.colorAttachments[1].storeAction = "MTLStoreActionUnknown"
    /\ ret.mtlRPDesc.depthAttachment.storeAction = "MTLStoreActionUnknown"

\* The color slots of subpass sp whose attachment is to be cleared in it.
SlotsToClear(sp) ==
    {caIdx \in UsedColorAttachments(sp) :
        ShouldClearAttachment(RPAttachment(sp.colorAttachments[caIdx + 1]), sp, FALSE, 0)}

\* The aspects of the depth/stencil attachment of sp that are to be cleared in it and
\* that its format has.
AspectsToClear(sp, isDepthFormat, isStencilFormat) ==
    IF sp.depthStencilAttachment = VK_ATTACHMENT_UNUSED THEN {}
    ELSE LET rpAtt == RPAttachment(sp.depthStencilAttachment)
         IN  {a \in {"VK_IMAGE_ASPECT_DEPTH_BIT"} :
                 ShouldClearAttachment(rpAtt, sp, FALSE, 0) /\ isDepthFormat}
             \cup {a \in {"VK_IMAGE_ASPECT_STENCIL_BIT"} :
                      ShouldClearAttachment(rpAtt, sp, TRUE, 0) /\ isStencilFormat}

\* C23: populateClearAttachments appends one entry, of the color aspect, the slot
\* index and the clear value of the attachment, for each color slot in use whose
\* attachment shouldClearAttachment says to clear, in slot order, and after them
\* one entry for the depth/stencil attachment when the aspects to clear that its
\* format has are not none, with exactly those aspects; and no other entry.
C23_ClearEntriesForSlotsToClear ==
    ret.op = "populateClearAttachments" =>
        LET sp      == _subpasses[ret.subpass]
            slots   == SlotsToClear(sp)
            n       == Cardinality(slots)
            aspects == AspectsToClear(sp, ret.isDepthFormat, ret.isStencilFormat)
        IN  /\ Len(ret.value) = n + (IF aspects = {} THEN 0 ELSE 1)
            /\ \A k \in 1 .. n :
                  ret.value[k] = [aspectMask |-> {"VK_IMAGE_ASPECT_COLOR_BIT"},
                                  colorAttachment |-> Nth(slots, k - 1),
                                  clearValue |-> sp.colorAttachments[Nth(slots, k - 1) + 1]]
            /\ aspects # {} =>
                  /\ ret.value[n + 1].aspectMask = aspects
                  /\ ret.value[n + 1].clearValue = sp.depthStencilAttachment

\* Of the two color attachments of the first subpass the one in slot 1 is to be
\* cleared and the one in slot 0 is not: one entry, for slot 1.
C23_Witness ==
    /\ ret.op = "populateClearAttachments"
    /\ ret.subpass = 1
    /\ _subpasses[1].colorAttachments = <<1, 0>>
    /\ SlotsToClear(_subpasses[1]) = {1}
    /\ Len(ret.value) = 1
    /\ ret.value[1].colorAttachment = 1
    /\ ret.value[1].clearValue = 0

-----------------------------------------------------------------------------
(* The clear rectangles of a multiview subpass, checked under SpecQueries *)

\* The maximal runs of contiguous views of mask m, each as <<first view, length>>.
RunsOf(m) ==
    {<<start, count>> \in (0 .. MaxViews) \X (1 .. MaxViews + 1) :
        /\ \A v \in start .. start + count - 1 : v \in Views(m)
        /\ (start - 1) \notin Views(m)
        /\ (start + count) \notin Views(m)}

\* The attachment populateMultiviewClearRects selects: the depth/stencil attachment
\* for a depth or stencil aspect, the color attachment of slot caIdx otherwise.
SelectedAttachment(sp, caIdx, aspectMask) ==
    IF aspectMask \cap {"VK_IMAGE_ASPECT_DEPTH_BIT", "VK_IMAGE_ASPECT_STENCIL_BIT"} # {}
    THEN sp.depthStencilAttachment
    ELSE sp.colorAttachments[caIdx + 1]

\* The rectangles are those of the runs of mask m, in ascending order.
RectsAreRunsOf(rects, m) ==
    /\ Len(rects) = Cardinality(RunsOf(m))
    /\ \A i \in 1 .. Len(rects) :
          <<rects[i].baseArrayLayer, rects[i].layerCount>> \in RunsOf(m)
    /\ \A i \in 1 .. Len(rects) - 1 :
          rects[i].baseArrayLayer < rects[i + 1].baseArrayLayer

\* C24: populateMultiviewClearRects emits nothing when the attachment it selects is
\* unused, and otherwise one rectangle for each maximal run of contiguous views, in
\* ascending order, of the views of the Metal pass that the subpass is the first to
\* render to the attachment: the view group of the pass intersected with the
\* first-use view mask of the attachment for the subpass.
C24_ClearRectsAreRunsOfFirstUse ==
    ret.op = "populateMultiviewClearRects" =>
        LET sp     == _subpasses[ret.subpass]
            attIdx == SelectedAttachment(sp, ret.caIdx, ret.aspectMask)
        IN  IF attIdx = VK_ATTACHMENT_UNUSED THEN ret.value = <<>>
            ELSE RectsAreRunsOf(ret.value,
                     BitAnd(GetViewMaskGroupForMetalPass(sp, ret.passIdx),
                            RPAttachment(attIdx).firstUseViewMasks[
                                EntryOf(attIdx + 1, ret.subpass)]))

\* The same of the calls for a subpass that uses the attachment as every subpass
\* before it does, so that its entry is at its subpass index.
C24_ClearRectsWhereAllUse ==
    (ret.op = "populateMultiviewClearRects"
        /\ LET attIdx == SelectedAttachment(_subpasses[ret.subpass], ret.caIdx, ret.aspectMask)
           IN  attIdx # VK_ATTACHMENT_UNUSED => AllUseUpTo(attIdx + 1, ret.subpass))
    => C24_ClearRectsAreRunsOfFirstUse

-----------------------------------------------------------------------------
(* The descriptor of a subpass without attachments, checked under SpecRecord *)

\* The color slots of the descriptor other than slot 0.
LaterColorSlots(desc) == {desc.colorAttachments[i] : i \in 2 .. Len(desc.colorAttachments)}

\* C25: for a subpass that uses no color and no depth/stencil attachment,
\* populateMTLRenderPassDescriptor writes to no attachment slot and sets the default
\* sample count when Metal can render without attachments, and otherwise writes to
\* color slot 0 alone: the dummy texture, level 0, slice 0, depth plane 0 and the
\* load and store actions DontCare.  For a subpass that uses an attachment no slot
\* holds the dummy texture and the default sample count is not set.
C25_DummyAttachmentOnlyWhenNeeded ==
    ret.op = "record" =>
        LET sp   == RecordedSubpass
            desc == ret.mtlRPDesc
            all  == {desc.colorAttachments[i] : i \in 1 .. Len(desc.colorAttachments)}
                        \cup {desc.depthAttachment, desc.stencilAttachment}
        IN  IF UsedColorAttachments(sp) = {} /\ sp.depthStencilAttachment = VK_ATTACHMENT_UNUSED
            THEN IF device.renderWithoutAttachments
                 THEN /\ all \subseteq {UnsetAttachmentDescriptor}
                      /\ desc.defaultRasterSampleCount = "_defaultSampleCount"
                 ELSE /\ desc.colorAttachments[1].texture = "dummy"
                      /\ desc.colorAttachments[1].level = 0
                      /\ desc.colorAttachments[1].slice = 0
                      /\ desc.colorAttachments[1].depthPlane = 0
                      /\ desc.colorAttachments[1].loadAction = "MTLLoadActionDontCare"
                      /\ desc.colorAttachments[1].storeAction = "MTLStoreActionDontCare"
                      /\ desc.colorAttachments[1].resolveTexture = VK_ATTACHMENT_UNUSED
                      /\ LaterColorSlots(desc) \cup {desc.depthAttachment, desc.stencilAttachment}
                            \subseteq {UnsetAttachmentDescriptor}
                      /\ desc.defaultRasterSampleCount = "unset"
            ELSE /\ \A slot \in all : slot.texture # "dummy"
                 /\ desc.defaultRasterSampleCount = "unset"

\* On a device whose Metal cannot render without attachments, a subpass whose one
\* color attachment is unused has been given the dummy attachment.
C25_Witness ==
    /\ ret.op = "record"
    /\ ~device.renderWithoutAttachments
    /\ RecordedSubpass.colorAttachments = <<VK_ATTACHMENT_UNUSED>>
    /\ RecordedSubpass.depthStencilAttachment = VK_ATTACHMENT_UNUSED
    /\ ret.mtlRPDesc.colorAttachments[1].texture = "dummy"

-----------------------------------------------------------------------------
(* The resolve of a color attachment, checked under SpecRecord *)

\* The compute resolves dispatched for color slot caIdx.
ResolvesOfSlot(caIdx) == {i \in 1 .. Len(ret.resolves) : ret.resolves[i].raIdx = caIdx}

\* C26: of a color slot whose color and resolve attachments are both in use, the
\* descriptor holds the resolve attachment as resolve texture and no compute resolve
\* is dispatched when the format of the resolve attachment can be resolved to, and
\* the descriptor holds no resolve texture and, once the render encoding has ended,
\* one compute resolve from the color to the resolve attachment has been dispatched
\* when it cannot.  A slot whose color or resolve attachment is unused has no
\* resolve texture and no compute resolve.
C26_OneResolveMechanismPerSlot ==
    ret.op = "record" =>
        LET sp == RecordedSubpass
        IN  \A caIdx \in 0 .. Len(sp.colorAttachments) - 1 :
                LET clr  == sp.colorAttachments[caIdx + 1]
                    rslv == ResolveOfSlot(sp, caIdx)
                    slot == ret.mtlRPDesc.colorAttachments[caIdx + 1]
                    byCompute == /\ clr # VK_ATTACHMENT_UNUSED
                                 /\ rslv # VK_ATTACHMENT_UNUSED
                                 /\ ~ViewOf(rslv).canResolve
                    byMetal   == /\ clr # VK_ATTACHMENT_UNUSED
                                 /\ rslv # VK_ATTACHMENT_UNUSED
                                 /\ ViewOf(rslv).canResolve
                IN  /\ slot.resolveTexture = (IF byMetal THEN rslv ELSE VK_ATTACHMENT_UNUSED)
                    /\ Cardinality(ResolvesOfSlot(caIdx))
                          = (IF byCompute /\ ret.stage = "resolved" THEN 1 ELSE 0)
                    /\ \A i \in ResolvesOfSlot(caIdx) :
                          /\ ret.resolves[i].colorTexture = clr
                          /\ ret.resolves[i].resolveTexture = rslv

\* The color attachment in slot 1 has a resolve attachment whose format cannot be
\* resolved to: the descriptor holds no resolve texture for it and one compute
\* resolve has been dispatched.
C26_Witness ==
    /\ ret.op = "record"
    /\ ret.stage = "resolved"
    /\ RecordedSubpass.colorAttachments = <<VK_ATTACHMENT_UNUSED, 0>>
    /\ RecordedSubpass.resolveAttachments = <<VK_ATTACHMENT_UNUSED, 1>>
    /\ ~ViewOf(1).canResolve
    /\ ret.mtlRPDesc.colorAttachments[2].resolveTexture = VK_ATTACHMENT_UNUSED
    /\ ret.resolves = << [raIdx |-> 1, resolveTexture |-> 1, colorTexture |-> 0] >>

-----------------------------------------------------------------------------
(* Resolve store actions, checked under SpecRecord *)

ResolveStoreActions ==
    {"MTLStoreActionMultisampleResolve", "MTLStoreActionStoreAndMultisampleResolve"}

\* The color slots for which a resolve store action was chosen, in the descriptor or
\* by a command of encodeStoreActions.
SlotsStoredByResolve ==
    {caIdx \in UsedColorAttachments(RecordedSubpass) :
        \/ ret.mtlRPDesc.colorAttachments[caIdx + 1].storeAction \in ResolveStoreActions
        \/ \E i \in 1 .. Len(ret.storeActions) :
              /\ ret.storeActions[i].cmd = "setColorStoreAction"
              /\ ret.storeActions[i].atIndex = caIdx
              /\ ret.storeActions[i].storeAction \in ResolveStoreActions}

\* The color slot has a resolve attachment whose format can be resolved to, and the
\* descriptor holds it as resolve texture.
ResolveConfigured(caIdx) ==
    LET rslv == ResolveOfSlot(RecordedSubpass, caIdx)
    IN  /\ rslv # VK_ATTACHMENT_UNUSED
        /\ ViewOf(rslv).canResolve
        /\ ret.mtlRPDesc.colorAttachments[caIdx + 1].resolveTexture = rslv

\* C27: whenever the store action chosen for a color attachment is
\* MultisampleResolve or StoreAndMultisampleResolve, its slot has a resolve
\* attachment whose format can be resolved to and the descriptor holds it as resolve
\* texture, for memoryless attachments as for others.
C27_ResolveActionHasResolveTexture ==
    ret.op = "record" => \A caIdx \in SlotsStoredByResolve : ResolveConfigured(caIdx)

\* The same of the color attachments that are not memoryless.
C27_ResolveActionUnlessMemoryless ==
    ret.op = "record" =>
        \A caIdx \in SlotsStoredByResolve :
            ~ViewOf(RecordedSubpass.colorAttachments[caIdx + 1]).isMemoryless
                => ResolveConfigured(caIdx)

-----------------------------------------------------------------------------
(* Discarding an attachment, checked under SpecDiscard *)

\* The subpasses after s that still use attachment a: any that uses it without
\* multiview, those that use it with a view of the view mask of s with multiview.
LaterUsers(a, s) ==
    {t \in Users(a) :
        /\ t > s
        /\ createInfo.multiview =>
              Views(_subpasses[t].viewMask) \cap Views(_subpasses[s].viewMask) # {}}

\* C28: when getMTLStoreAction returns DontCare for an attachment that is not
\* memoryless at a subpass that uses it, no later subpass still uses the attachment,
\* whichever of the subpasses use it.
C28_NoDiscardBeforeLaterUse ==
    (/\ ret.op = "getMTLStoreAction"
     /\ ~ret.isMemorylessAttachment
     /\ ret.subpass \in Users(ret.att)
     /\ ret.value = "MTLStoreActionDontCare") =>
        LaterUsers(ret.att, ret.subpass) = {}

\* The same without multiview, and with multiview of the calls for a subpass that
\* uses the attachment as every subpass before it does.
C28_NoDiscardWhereAllUse ==
    (ret.op = "getMTLStoreAction"
        /\ (createInfo.multiview => AllUseUpTo(ret.att, ret.subpass)))
        => C28_NoDiscardBeforeLaterUse

=============================================================================
